---------------------------- MODULE Spec2Model ----------------------------
(***************************************************************************)
(* A model of the script line classifier (src/utils/scriptParsing.ts) and  *)
(* of generateDramaAudio (src/services/geminiService.ts), of its caller    *)
(* handleGenerateAudio (src/App.tsx) with the audio utilities it uses, and *)
(* of the cast derivation of ScriptPanel (src/components/ScriptPanel.tsx), *)
(* of callWithRetry, of the playback handlers of App and of the audio      *)
(* utilities decodeAudioData, resampleBuffer, concatenateAudioBuffers and  *)
(* audioBufferToWav (src/utils/audioUtils.ts).                             *)
(*                                                                         *)
(* A JavaScript string is modelled as a sequence of characters, each       *)
(* character a one-character TLA+ string; a character outside ASCII is     *)
(* written by its code point, "u00F0".  The empty string is << >>.  A      *)
(* nullable value (currentSpeaker) is a sequence of length 0 or 1.         *)
(***************************************************************************)
EXTENDS Integers, Sequences, FiniteSets, TLC

VARIABLES
    script,          \* parseScriptContent: the lines the loop has consumed
    parsedLines,     \* parseScriptContent: parsedLines
    currentSpeaker,  \* parseScriptContent: currentSpeaker, << >> for null
    outcome,         \* parseScriptContent: how the last line left the loop body
    pPc,             \* parseScriptContent: "loop" or "returned"
    cRaw,            \* cleanSpeakerName: the argument raw
    cName,           \* cleanSpeakerName: the local name
    cPc,             \* cleanSpeakerName: the step reached
    mName,           \* isMetadataLine: the argument speakerClean
    mResult,         \* isMetadataLine: the value returned
    mPc,             \* isMetadataLine: "call" or "returned"
    rawLines,        \* generateDramaAudio: rawLines
    gI,              \* generateDramaAudio: the grouping loop's i (0-based)
    currentSegment,  \* generateDramaAudio: currentSegment, << >> before it is set
    segments,        \* generateDramaAudio: segments
    gPc,             \* generateDramaAudio: the step reached in the grouping
    sI,              \* generateDramaAudio: the synthesis loop's i
    retries,         \* generateDramaAudio: retries
    success,         \* generateDramaAudio: success
    currentDelay,    \* generateDramaAudio: currentDelay, in ms
    audioResults,    \* generateDramaAudio: audioResults
    sPc,             \* generateDramaAudio and its caller: the step reached
    error,           \* the error generateDramaAudio threw, << >> for none
    outstanding,     \* the generateContent calls that have not settled
    requestCount,    \* the generateContent calls made so far
    segmentRequests, \* the generateContent calls made for the segment at i
    waited,          \* the ms of delay() since the last call was made
    lastOutcome,     \* how the last call settled: "none", "success", "limited"
    speechBuffer,    \* App: speechBuffer, << >> for null
    characters,      \* App: characters
    castScript,      \* ScriptPanel: the speakerClean of the script's ParsedLines
    voiceRegistry,   \* ScriptPanel: voiceRegistry.current, in insertion order
    dropped,         \* the Characters the last derivations dropped
    castPc,          \* ScriptPanel: "idle", "mounted" or "derived"
    castSteps,       \* the handlers run since the mount
    uIn,             \* audio utilities: the arguments of the call
    uOut,            \* audio utilities: what the call returned, << >> before
    uPc,             \* audio utilities: "idle", "call" or "returned"
    cwMaxRetries,    \* callWithRetry: maxRetries
    cwRetries,       \* callWithRetry: retries
    cwCalls,         \* callWithRetry: the calls of apiCall made so far
    cwWaits,         \* callWithRetry: the waitTime of each delay(), in ms
    cwError,         \* callWithRetry: the message of the error caught or thrown last
    cwPc,            \* callWithRetry: the step reached
    isGeneratingAudio,  \* App: isGeneratingAudio
    generationStatus,   \* App: generationStatus
    duration,        \* App: duration, in frames
    isPlaying,       \* App: isPlaying
    speechSource,    \* App: the buffer of speechSourceRef.current, << >> for null
    pauseOffset,     \* App: pauseOffsetRef.current
    currentTime,     \* App: currentTime
    elapsed,         \* App: ctx.currentTime - startTimeRef.current
    raf,             \* App: the speechBuffer of the updateTime that is scheduled
    runs             \* the runs of handleGenerateAudio started so far

parserVars == <<script, parsedLines, currentSpeaker, outcome, pPc>>
cleanVars == <<cRaw, cName, cPc>>
metaVars == <<mName, mResult, mPc>>
groupVars == <<rawLines, gI, currentSegment, segments, gPc>>
genVars == <<sI, retries, success, currentDelay, audioResults, sPc, error,
             outstanding, requestCount, segmentRequests, waited, lastOutcome,
             speechBuffer>>
castVars == <<characters, castScript, voiceRegistry, dropped, castPc, castSteps>>
utilVars == <<uIn, uOut, uPc>>
retryVars == <<cwMaxRetries, cwRetries, cwCalls, cwWaits, cwError, cwPc>>
playVars == <<duration, isPlaying, speechSource, pauseOffset, currentTime, elapsed, raf>>
appVars == <<isGeneratingAudio, generationStatus, runs, playVars>>
vars == <<parserVars, cleanVars, metaVars, groupVars, genVars, castVars,
          utilVars, retryVars, appVars>>

---------------------------------------------------------------------------
(* Characters and the string primitives of the JavaScript runtime.         *)

UpperLetters ==
    {"A","B","C","D","E","F","G","H","I","J","K","L","M",
     "N","O","P","Q","R","S","T","U","V","W","X","Y","Z"}

LowerLetters ==
    {"a","b","c","d","e","f","g","h","i","j","k","l","m",
     "n","o","p","q","r","s","t","u","v","w","x","y","z"}

\* The letters outside ASCII that the source's string literals contain.
OtherLetters == {"u00E2", "u00F0", "u0178", "u017D", "u00B5", "u0152", "u00C2"}

AsciiDigits == {"0","1","2","3","4","5","6","7","8","9"}

\* \p{N}: the ASCII digits and the superscript three of a source literal.
NumberChars == AsciiDigits \cup {"u00B3"}

\* \s and the characters String.prototype.trim removes.
WhiteSpace == {" ", "\t"}

\* \p{P}, as far as the model's characters go.
Punctuation ==
    {"!", ".", ",", "?", ";", ":", "'", "\"", "(", ")", "-", "*", "#", "_",
     "/", "[", "]", "u201D", "u201C", "u2018", "u2030", "u00B7"}

\* The character class of the separator regexes, as the source file holds it.
DashChars == {"-", "u00E2", "u20AC", "u201D", "u201C"}

LowerOf ==
    [A |-> "a", B |-> "b", C |-> "c", D |-> "d", E |-> "e", F |-> "f",
     G |-> "g", H |-> "h", I |-> "i", J |-> "j", K |-> "k", L |-> "l",
     M |-> "m", N |-> "n", O |-> "o", P |-> "p", Q |-> "q", R |-> "r",
     S |-> "s", T |-> "t", U |-> "u", V |-> "v", W |-> "w", X |-> "x",
     Y |-> "y", Z |-> "z"]

UpperOf ==
    [a |-> "A", b |-> "B", c |-> "C", d |-> "D", e |-> "E", f |-> "F",
     g |-> "G", h |-> "H", i |-> "I", j |-> "J", k |-> "K", l |-> "L",
     m |-> "M", n |-> "N", o |-> "O", p |-> "P", q |-> "Q", r |-> "R",
     s |-> "S", t |-> "T", u |-> "U", v |-> "V", w |-> "W", x |-> "X",
     y |-> "Y", z |-> "Z"]

Min(S) == CHOOSE x \in S : \A y \in S : x <= y

Max(S) == CHOOSE x \in S : \A y \in S : x >= y

ToLowerCase(s) ==
    [i \in 1..Len(s) |-> IF s[i] \in UpperLetters THEN LowerOf[s[i]] ELSE s[i]]

ToUpperCase(s) ==
    [i \in 1..Len(s) |-> IF s[i] \in LowerLetters THEN UpperOf[s[i]] ELSE s[i]]

Trim(s) ==
    LET kept == {i \in 1..Len(s) : s[i] \notin WhiteSpace}
    IN  IF kept = {} THEN << >> ELSE SubSeq(s, Min(kept), Max(kept))

StartsWith(s, p) == Len(p) <= Len(s) /\ SubSeq(s, 1, Len(p)) = p

EndsWith(s, p) == Len(p) <= Len(s) /\ SubSeq(s, Len(s) - Len(p) + 1, Len(s)) = p

Includes(s, w) ==
    \E i \in 1..(Len(s) - Len(w) + 1) : SubSeq(s, i, i + Len(w) - 1) = w

\* s.replace(/[^...]/g, ''): the characters of s that keep(c) holds of.
RECURSIVE Filter(_, _)
Filter(s, keep) ==
    IF s = << >> THEN << >>
    ELSE (IF Head(s) \in keep THEN <<Head(s)>> ELSE << >>) \o Filter(Tail(s), keep)

\* s.split(/[seps]+/): the pieces between the maximal runs of separators.
RECURSIVE Split(_, _)
Split(s, seps) ==
    LET at == {i \in 1..Len(s) : s[i] \in seps}
    IN  IF at = {} THEN <<s>>
        ELSE LET i == Min(at)
                 rest == {j \in (i + 1)..Len(s) : s[j] \notin seps}
                 j == IF rest = {} THEN Len(s) + 1 ELSE Min(rest)
             IN  <<SubSeq(s, 1, i - 1)>> \o Split(SubSeq(s, j, Len(s)), seps)

\* parts.join(sep)
RECURSIVE Join(_, _)
Join(parts, sep) ==
    IF parts = << >> THEN << >>
    ELSE IF Len(parts) = 1 THEN parts[1]
    ELSE parts[1] \o sep \o Join(Tail(parts), sep)

\* The matches of /\((.*?)\)/g in s, as <<first, last>> index pairs.
RECURSIVE ParenSpans(_, _)
ParenSpans(s, from) ==
    LET opens == {i \in from..Len(s) :
                     s[i] = "(" /\ \E j \in (i + 1)..Len(s) : s[j] = ")"}
    IN  IF opens = {} THEN << >>
        ELSE LET i == Min(opens)
                 j == Min({k \in (i + 1)..Len(s) : s[k] = ")"})
             IN  <<<<i, j>>>> \o ParenSpans(s, j + 1)

---------------------------------------------------------------------------
(* cleanSpeakerName                                                        *)

\* The characters of s, from index i on, whose index is not in drop.
RECURSIVE DropIndices(_, _, _)
DropIndices(s, drop, i) ==
    IF i > Len(s) THEN << >>
    ELSE (IF i \in drop THEN << >> ELSE <<s[i]>>) \o DropIndices(s, drop, i + 1)

\* raw.replace(/\(.*?\)/g, '')
RemoveParens(s) ==
    LET spans == ParenSpans(s, 1)
        inside == {i \in 1..Len(s) :
                      \E k \in 1..Len(spans) : spans[k][1] <= i /\ i <= spans[k][2]}
    IN  DropIndices(s, inside, 1)

\* name.match(/\s+[-...]\s+/): the 0-based index of the leftmost match, in a
\* sequence of length 0 (no match) or 1.
SeparatorMatch(s) ==
    LET starts == {i \in 1..Len(s) :
                      /\ s[i] \in WhiteSpace
                      /\ \E j \in (i + 1)..(Len(s) - 1) :
                            /\ \A k \in i..(j - 1) : s[k] \in WhiteSpace
                            /\ s[j] \in DashChars
                            /\ s[j + 1] \in WhiteSpace}
    IN  IF starts = {} THEN << >> ELSE <<Min(starts) - 1>>

\* A match at index 0 truncates nothing: the index 0 is falsy in
\* "separatorMatch && separatorMatch.index".
TruncateAtSeparator(s) ==
    LET separatorMatch == SeparatorMatch(s)
    IN  IF separatorMatch # << >> /\ separatorMatch[1] # 0
        THEN SubSeq(s, 1, separatorMatch[1])
        ELSE s

\* name.replace(/[^\p{L}\p{N}\s'-]/gu, '')
NameChars ==
    UpperLetters \cup LowerLetters \cup OtherLetters \cup NumberChars
        \cup WhiteSpace \cup {"'", "-"}

StripSymbols(s) == Filter(s, NameChars)

cleanSpeakerName(raw) == Trim(StripSymbols(TruncateAtSeparator(RemoveParens(raw))))

---------------------------------------------------------------------------
(* isMetadataLine                                                          *)

startsWithBanned ==
    {<<"s","c","e","n","e">>, <<"a","c","t">>, <<"a","c","t",":">>,
     <<"c","u","e">>, <<"s","o","u","n","d">>, <<"f","x">>, <<"l","i","g","h","t","i","n","g">>,
     <<"c","a","m","e","r","a">>, <<"c","u","t"," ","t","o">>, <<"f","a","d","e">>,
     <<"n","a","r","r","a","t","o","r"," ","o","p","e","n","i","n","g">>, <<"c","l","o","s","i","n","g">>, <<"e","n","t","r","y">>, <<"e","x","i","t">>,
     <<"i","n","t",".">>, <<"e","x","t",".">>, <<"e","s","t",".">>,
     <<"t","o","t","a","l">>,
     <<"t","i","m","e">>, <<"d","a","t","e">>, <<"s","e","t","t","i","n","g">>, <<"l","o","c","a","t","i","o","n">>, <<"p","l","a","c","e">>,
     <<"d","r","a","m","a">>, <<"d","a","n","c","e">>, <<"d","u","r","a","t","i","o","n">>,
     <<"o","r","d","e","r">>, <<"g","e","n">>, <<"g","e","n","-","z">>,
     <<"h","e","r","e","'","s">>, <<"h","e","r","e"," ","i","s">>, <<"s","u","r","e">>, <<"o","k","a","y">>, <<"c","e","r","t","a","i","n","l","y">>,
     <<"r","e","v","i","s","e","d">>, <<"h","u","m","a","n","i","z","e","d">>, <<"g","e","n","e","r","a","t","e","d">>, <<"s","c","r","i","p","t">>, <<"t","i","t","l","e">>,
     <<"s","y","n","o","p","s","i","s">>, <<"s","u","m","m","a","r","y">>, <<"c","a","s","t">>, <<"c","h","a","r","a","c","t","e","r","s">>,
     <<"n","o","t","e">>, <<"d","i","s","c","l","a","i","m","e","r">>}

containsBanned ==
    {<<"t","r","a","n","s","i","t","i","o","n">>, <<"b","a","c","k","g","r","o","u","n","d">>, <<"t","h","e","m","e">>, <<"f","a","d","e"," ","o","u","t">>, <<"f","a","d","e"," ","i","n">>,
     <<"m","u","s","i","c">>, <<"s","o","n","g">>, <<"b","e","a","t">>, <<"f","l","u","t","e">>, <<"t","r","a","c","k">>,
     <<"e","n","t","r","y">>, <<"e","n","t","e","r","s">>, <<"d","e","s","c","e","n","d","s">>, <<"a","p","p","e","a","r">>,
     <<"b","o","w">>, <<"a","p","p","l","a","u","s","e">>, <<"l","a","u","g","h">>, <<"c","h","e","e","r">>, <<"c","r","o","w","d">>,
     <<"e","n","d">>, <<"b","e","g","i","n">>, <<"s","t","a","r","t">>, <<"f","i","n","i","s","h">>}

\* /^<word>\s*#?\d+/ with the '#' allowed only where hash is TRUE.
WordThenNumber(s, word, hash) ==
    /\ StartsWith(s, word)
    /\ \E j \in (Len(word) + 1)..Len(s) :
          /\ s[j] \in AsciiDigits
          /\ \E h \in (Len(word) + 1)..j :
                /\ \A k \in (Len(word) + 1)..(h - 1) : s[k] \in WhiteSpace
                /\ \/ h = j
                   \/ hash /\ h = j - 1 /\ s[h] = "#"

\* lower.split(/[\s-]+/)
NameWords(lower) == Split(lower, WhiteSpace \cup {"-"})

PrefixRule(lower) ==
    \E prefix \in startsWithBanned :
        lower = prefix \/ StartsWith(lower, prefix \o <<" ">>)

ContainsRule(lower) == \E word \in containsBanned : Includes(lower, word)

RegexRule(lower) ==
    \/ WordThenNumber(lower, <<"a","c","t">>, FALSE)
    \/ WordThenNumber(lower, <<"s","c","e","n","e">>, FALSE)
    \/ WordThenNumber(lower, <<"o","r","d","e","r">>, TRUE)

CueRule(lower) == \E k \in 1..Len(NameWords(lower)) : NameWords(lower)[k] = <<"c","u","e">>

MaxNameWords == 4

LengthRule(lower) == Len(NameWords(lower)) > MaxNameWords

AlphaEmptyRule(lower) == Len(Filter(lower, LowerLetters)) = 0

isMetadataLine(speakerClean) ==
    LET lower == Trim(ToLowerCase(speakerClean))
    IN  \/ PrefixRule(lower)
        \/ ContainsRule(lower)
        \/ RegexRule(lower)
        \/ CueRule(lower)
        \/ LengthRule(lower)
        \/ AlphaEmptyRule(lower)

---------------------------------------------------------------------------
(* The values the variables of an operation hold while another operation   *)
(* is the one being run.                                                   *)

ParserIdle ==
    /\ script = << >>
    /\ parsedLines = << >>
    /\ currentSpeaker = << >>
    /\ outcome = "none"
    /\ pPc = "idle"

CleanIdle == cRaw = << >> /\ cName = << >> /\ cPc = "idle"

MetaIdle == mName = << >> /\ mResult = FALSE /\ mPc = "idle"

GroupIdle ==
    /\ rawLines = << >>
    /\ gI = 0
    /\ currentSegment = << >>
    /\ segments = << >>
    /\ gPc = "idle"

GenIdle ==
    /\ sI = 0
    /\ retries = 0
    /\ success = FALSE
    /\ currentDelay = 0
    /\ audioResults = << >>
    /\ sPc = "idle"
    /\ error = << >>
    /\ outstanding = 0
    /\ requestCount = 0
    /\ segmentRequests = 0
    /\ waited = 0
    /\ lastOutcome = "none"
    /\ speechBuffer = << >>

CastIdle ==
    /\ characters = << >>
    /\ castScript = << >>
    /\ voiceRegistry = << >>
    /\ dropped = {}
    /\ castPc = "idle"
    /\ castSteps = 0

UtilIdle == uIn = << >> /\ uOut = << >> /\ uPc = "idle"

RetryIdle ==
    /\ cwMaxRetries = 0
    /\ cwRetries = 0
    /\ cwCalls = 0
    /\ cwWaits = << >>
    /\ cwError = << >>
    /\ cwPc = "idle"

\* No run of handleGenerateAudio, and nothing played.
AppIdle ==
    /\ isGeneratingAudio = FALSE
    /\ generationStatus = ""
    /\ duration = 0
    /\ isPlaying = FALSE
    /\ speechSource = << >>
    /\ pauseOffset = 0
    /\ currentTime = 0
    /\ elapsed = 0
    /\ raf = << >>
    /\ runs = 0

\* The first run of handleGenerateAudio awaits generateDramaAudio:
\* setIsGeneratingAudio(true); setGenerationStatus('Initializing audio generation...');
AppRunning ==
    /\ isGeneratingAudio = TRUE
    /\ generationStatus = "Initializing audio generation..."
    /\ duration = 0
    /\ isPlaying = FALSE
    /\ speechSource = << >>
    /\ pauseOffset = 0
    /\ currentTime = 0
    /\ elapsed = 0
    /\ raf = << >>
    /\ runs = 1

---------------------------------------------------------------------------
(* cleanSpeakerName, statement by statement, on every label up to a length *)

MaxLabelLen == 5

LabelChars == {"A", " ", "-", "(", ")", "!"}

Labels == UNION {[1..n -> LabelChars] : n \in 0..MaxLabelLen}

CleanInit ==
    /\ cRaw \in Labels
    /\ cName = << >>
    /\ cPc = "parens"
    /\ ParserIdle /\ MetaIdle /\ GroupIdle /\ GenIdle /\ CastIdle
    /\ UtilIdle /\ RetryIdle /\ AppIdle

CleanParens ==
    /\ cPc = "parens"
    /\ cName' = RemoveParens(cRaw)
    /\ cPc' = "separator"
    /\ UNCHANGED <<cRaw, parserVars, metaVars, groupVars, genVars, castVars,
                 utilVars, retryVars, appVars>>

CleanSeparator ==
    /\ cPc = "separator"
    /\ cName' = TruncateAtSeparator(cName)
    /\ cPc' = "symbols"
    /\ UNCHANGED <<cRaw, parserVars, metaVars, groupVars, genVars, castVars,
                 utilVars, retryVars, appVars>>

CleanSymbols ==
    /\ cPc = "symbols"
    /\ cName' = StripSymbols(cName)
    /\ cPc' = "trim"
    /\ UNCHANGED <<cRaw, parserVars, metaVars, groupVars, genVars, castVars,
                 utilVars, retryVars, appVars>>

CleanTrim ==
    /\ cPc = "trim"
    /\ cName' = Trim(cName)
    /\ cPc' = "returned"
    /\ UNCHANGED <<cRaw, parserVars, metaVars, groupVars, genVars, castVars,
                 utilVars, retryVars, appVars>>

CleanNext == CleanParens \/ CleanSeparator \/ CleanSymbols \/ CleanTrim

SpecClean == CleanInit /\ [][CleanNext]_vars

---------------------------------------------------------------------------
(* isMetadataLine on every name of up to MaxWords words                    *)

MaxWords == 5

WordPool == {<<"A","l">>, <<"c","u","e">>, <<"a","c","t">>}

WordSeparators == {<<" ">>, <<"-">>}

\* ws[1] seps[1] ws[2] ... seps[n-1] ws[n]
RECURSIVE Interleave(_, _)
Interleave(ws, seps) ==
    IF Len(ws) = 1 THEN ws[1]
    ELSE ws[1] \o seps[1] \o Interleave(Tail(ws), Tail(seps))

Names ==
    UNION {{Interleave(ws, seps) :
               ws \in [1..n -> WordPool], seps \in [1..(n - 1) -> WordSeparators]} :
           n \in 1..MaxWords}

MetaInit ==
    /\ mName \in Names
    /\ mResult = FALSE
    /\ mPc = "call"
    /\ ParserIdle /\ CleanIdle /\ GroupIdle /\ GenIdle /\ CastIdle
    /\ UtilIdle /\ RetryIdle /\ AppIdle

MetaCall ==
    /\ mPc = "call"
    /\ mResult' = isMetadataLine(mName)
    /\ mPc' = "returned"
    /\ UNCHANGED <<mName, parserVars, cleanVars, groupVars, genVars, castVars,
                 utilVars, retryVars, appVars>>

MetaNext == MetaCall

SpecMeta == MetaInit /\ [][MetaNext]_vars

---------------------------------------------------------------------------
(* parseScriptContent: the body of the loop over the lines                 *)

ColonLabelMax == 60

DashLabelMax == 50

\* trimmedLine.match(/^([^:]{1,60}):(.*)$/): << >> for null, else
\* <<[label |-> match[1], rest |-> match[2]]>>.
ColonMatch(t) ==
    LET colons == {i \in 1..Len(t) : t[i] = ":"}
    IN  IF colons = {} THEN << >>
        ELSE LET c == Min(colons)
             IN  IF c >= 2 /\ c - 1 <= ColonLabelMax
                 THEN <<[label |-> SubSeq(t, 1, c - 1),
                         rest |-> SubSeq(t, c + 1, Len(t))]>>
                 ELSE << >>

\* trimmedLine.match(/^([^...-]{1,50})\s*[...-]\s*(.*)$/).  The label holds no
\* dash and \s matches none, so the dash matched is the first of the line;
\* the greedy label takes up to 50 characters and \s* the rest before it.
DashMatch(t) ==
    LET dashes == {i \in 1..Len(t) : t[i] \in DashChars}
    IN  IF dashes = {} THEN << >>
        ELSE LET d == Min(dashes)
                 n == IF d - 1 <= DashLabelMax THEN d - 1 ELSE DashLabelMax
                 after == {j \in (d + 1)..Len(t) : t[j] \notin WhiteSpace}
             IN  IF d >= 2 /\ \A k \in (n + 1)..(d - 1) : t[k] \in WhiteSpace
                 THEN <<[label |-> SubSeq(t, 1, n),
                         rest |-> IF after = {} THEN << >>
                                  ELSE SubSeq(t, Min(after), Len(t))]>>
                 ELSE << >>

commonStarters ==
    {<<"i">>, <<"w","e">>, <<"y","o","u">>, <<"h","e">>, <<"s","h","e">>, <<"i","t">>, <<"t","h","e","y">>,
     <<"t","h","e">>, <<"a">>, <<"a","n">>, <<"t","h","i","s">>, <<"t","h","a","t">>, <<"t","h","e","s","e">>, <<"t","h","o","s","e">>,
     <<"b","u","t">>, <<"a","n","d">>, <<"s","o">>, <<"o","r">>, <<"b","e","c","a","u","s","e">>, <<"w","h","e","n">>, <<"i","f">>, <<"t","h","e","n">>,
     <<"w","h","i","l","e">>,
     <<"w","h","a","t">>, <<"w","h","y">>, <<"w","h","e","r","e">>, <<"w","h","o">>, <<"h","o","w">>,
     <<"w","a","i","t">>, <<"l","o","o","k">>, <<"s","t","o","p">>, <<"g","o">>, <<"c","o","m","e">>, <<"l","i","s","t","e","n">>, <<"n","o">>, <<"y","e","s">>,
     <<"w","e","l","l">>,
     <<"t","o","t","a","l">>, <<"a","c","t">>, <<"s","c","e","n","e">>, <<"o","r","d","e","r">>}

bioStarters ==
    {<<"m","a","l","e">>, <<"f","e","m","a","l","e">>, <<"b","o","y">>, <<"g","i","r","l">>, <<"m","a","n">>, <<"w","o","m","a","n">>, <<"k","i","d">>,
     <<"a","d","u","l","t">>, <<"v","o","i","c","e">>, <<"c","h","a","r","a","c","t","e","r">>, <<"r","o","l","e">>, <<"a","g","e">>, <<"n","a","r","r","a","t","o","r">>,
     <<"s","p","e","a","k","e","r">>}

\* s.split(/[\s\p{P}]+/u)[0].toLowerCase()
FirstWord(s) == ToLowerCase(Split(s, WhiteSpace \cup Punctuation)[1])

\* s === s.toUpperCase() && /[A-Z]/.test(s)
IsCaps(s) == s = ToUpperCase(s) /\ \E i \in 1..Len(s) : s[i] \in UpperLetters

HasDigitOrHash(s) == \E i \in 1..Len(s) : s[i] \in AsciiDigits \cup {"#"}

StartsLower(s) == s # << >> /\ s[1] \in LowerLetters

MaxCleanWords == 3

MinHeaderWords == 4

\* The rejections of a dash match, in the order of the source.
GateIndent(line) == line[1] \in WhiteSpace

GateLower(speakerRaw) == StartsLower(speakerRaw)

GateDigit(speakerRaw) == HasDigitOrHash(speakerRaw)

GateStarter(speakerRaw) == FirstWord(speakerRaw) \in commonStarters

GateWords(speakerClean) == Len(Split(speakerClean, WhiteSpace)) > MaxCleanWords

GateDialogue(potentialDialogue) ==
    Len(potentialDialogue) > 0 /\ StartsLower(potentialDialogue)

GateBio(potentialDialogue) == FirstWord(Trim(potentialDialogue)) \in bioStarters

GateAct(speakerRaw) == WordThenNumber(ToLowerCase(speakerRaw), <<"a","c","t">>, FALSE)

GateCaps(speakerClean, potentialDialogue) ==
    LET isSpeakerCaps == IsCaps(speakerClean)
        isDialogueCaps == IsCaps(potentialDialogue)
        wordCount == Len(Split(potentialDialogue, WhiteSpace))
    IN  isSpeakerCaps /\ (isDialogueCaps \/ wordCount < MinHeaderWords)

\* The first rejection of the gate that applies, "pass" when none does.
DashGate(line, speakerRaw, speakerClean, potentialDialogue) ==
    IF GateIndent(line) THEN "gate_indent"
    ELSE IF GateLower(speakerRaw) THEN "gate_lower"
    ELSE IF GateDigit(speakerRaw) THEN "gate_digit"
    ELSE IF GateStarter(speakerRaw) THEN "gate_starter"
    ELSE IF GateWords(speakerClean) THEN "gate_words"
    ELSE IF GateDialogue(potentialDialogue) THEN "gate_dialogue"
    ELSE IF GateBio(potentialDialogue) THEN "gate_bio"
    ELSE IF GateAct(speakerRaw) THEN "gate_act"
    ELSE IF GateCaps(speakerClean, potentialDialogue) THEN "gate_caps"
    ELSE "pass"

\* speakerRaw.match(/\((.*?)\)/g), joined by ' ' ("" when there is no match)
Metadata(speakerRaw) ==
    LET spans == ParenSpans(speakerRaw, 1)
    IN  Join([k \in 1..Len(spans) |-> SubSeq(speakerRaw, spans[k][1], spans[k][2])],
             <<" ">>)

\* A cue candidate: what a line with a separator match is taken for.
Candidate(line, match, isDashMatch) ==
    LET speakerRaw == Trim(match.label)
        potentialDialogue == Trim(match.rest)
        speakerClean == cleanSpeakerName(speakerRaw)
        gate == IF isDashMatch
                THEN DashGate(line, speakerRaw, speakerClean, potentialDialogue)
                ELSE IF HasDigitOrHash(speakerRaw) THEN "colon_digit"
                ELSE "pass"
    IN  IF StartsWith(speakerRaw, <<"*">>) \/ StartsWith(speakerRaw, <<"#">>)
        THEN [kind |-> "markdown"]
        ELSE IF gate # "pass" THEN [kind |-> gate]
        ELSE IF speakerClean # << >> /\ ~isMetadataLine(speakerClean)
        THEN [kind |-> "cue",
              line |-> [original |-> line,
                        speakerRaw |-> speakerRaw,
                        speakerClean |-> speakerClean,
                        metadata |-> Metadata(speakerRaw),
                        dialogue |-> potentialDialogue]]
        ELSE [kind |-> "continuation"]

\* The loop body without "if (!trimmedLine) continue": a blank line is a
\* line like any other.
ClassifyBlankAsText(line) ==
    LET trimmedLine == Trim(line)
        colon == ColonMatch(trimmedLine)
        match == IF colon # << >> THEN colon ELSE DashMatch(trimmedLine)
    IN  IF match = << >> THEN [kind |-> "continuation"]
        ELSE Candidate(line, match[1], colon = << >>)

\* The part of the loop body up to "continue" or the fall to the
\* continuation logic: what the line is taken for, and the ParsedLine it
\* starts when it is taken for a cue.  It reads the line alone.
Classify(line) ==
    LET trimmedLine == Trim(line)
        colon == ColonMatch(trimmedLine)
        match == IF colon # << >> THEN colon ELSE DashMatch(trimmedLine)
    IN  IF trimmedLine = << >> THEN [kind |-> "blank"]
        ELSE IF match = << >> THEN [kind |-> "continuation"]
        ELSE Candidate(line, match[1], colon = << >>)

\* The lines the scripts are made of: cues of both separators, blank lines,
\* and a line for each way the continuation logic and the rejections end.
ScriptLines ==
    {<<"H","e","r","o",":"," ","H","i">>,                 \* a colon cue
     <<"A","n","n"," ","-"," ","H","e","l","l","o">>,              \* a dash cue
     <<"A","l"," ","!","-"," ","B","o",":"," ","h","i">>,             \* a colon cue, a symbol before the hyphen
     <<"(","x",")"," ","-"," ","A"," ","-"," ","B",":"," ","h","i">>,          \* a colon cue, a parenthetical first
     <<>>,                         \* blank
     <<" "," ">>,                       \* blank
     <<"a","n","d"," ","s","o"," ","o","n">>,                \* no separator
     <<"(","l","a","u","g","h","s",")">>,                 \* a pure parenthetical
     <<"-","-","-">>,                      \* a separator line
     <<"u00F0","u0178","u017D","u00B5"," ","l","a">>,   \* a line that starts with a glyph
     <<"u00C2","u00B7"," ","x">>,         \* a line that starts with the bullet
     <<"S","c","e","n","e",":"," ","d","a","r","k">>,              \* a colon match on a metadata label
     <<"A","c","t"," ","2",":"," ","x">>,                 \* a colon match, a digit in the label
     <<"*"," ","B","o","b",":"," ","x">>,                 \* a markdown bullet
     <<"A","n","n"," ","r","a","n"," ","-"," ","h","e"," ","f","e","l","l">>}        \* a dash match, lowercase dialogue

\* The lines the rejections are tried on: those above, and a line for each
\* rejection of the dash gate and of the markers.
GateLines ==
    ScriptLines \cup
    {<<"B","o","b"," ","(","s","a","d",")",":"," ","O","h">>,            \* a colon cue with a parenthetical
     <<"#"," ","A",":"," ","x">>,                   \* a markdown heading
     <<"#","A"," ","-"," ","x">>,                   \* a markdown heading, a dash match
     <<"O","r","d","e","r"," ","#","6",":"," ","x">>,              \* a colon match, a '#' in the label
     <<" ","A","n","n"," ","-"," ","H","e","l","l","o">>,             \* a dash match on an indented line
     <<"a","n","d"," ","t","h","e","n"," ","-"," ","H","e"," ","d","i","e","d">>,       \* a dash match, lowercase label
     <<"R","o","o","m"," ","2"," ","-"," ","N","i","g","h","t">>,           \* a dash match, a digit in the label
     <<"W","e","l","l"," ","-"," ","O","K"," ","t","h","e","n">>,           \* a dash match, sentence starter
     <<"A","n","n"," ","T","h","e"," ","B","i","g"," ","O","n","e"," ","-"," ","H","e","l","l","o">>,  \* a dash match, label of five words
     <<"A","n","n"," ","-"," ","M","a","l","e",","," ","b","r","a","v","e">>,        \* a dash match, biographical dialogue
     <<"A","N","N"," ","-"," ","H","I"," ","Y","O","U"," ","A","L","L"," ","T","H","E","R","E">>,   \* a dash match, capitals on both sides
     <<"A","N","N"," ","-"," ","H","i">>}                 \* a dash match, capitals and short dialogue

\* Classify is a function of the line alone: its value on each line of the
\* scripts, computed once.
ClassifiedLines == [l \in GateLines |-> Classify(l)]

\* Classify, looked up for the lines of the scripts and computed for any other.
Classified(line) ==
    IF line \in DOMAIN ClassifiedLines THEN ClassifiedLines[line] ELSE Classify(line)

\* The glyphs a continuation line is skipped for, as the source file holds them.
SkippedGlyphs ==
    {<<"u00F0","u0178","u017D","u00B5">>, <<"u00F0","u0178","u0152","u0178">>,
     <<"u00E2","u00B3">>, <<"u00F0","u0178","u201D","u00A5">>,
     <<"u00F0","u0178","u2018","u2030">>}

MinSeparatorLen == 3

\* The skip filters of the continuation logic, "append" when none applies.
ContinuationFilter(trimmedLine) ==
    IF StartsWith(trimmedLine, <<"(">>) /\ EndsWith(trimmedLine, <<")">>)
    THEN "skip_paren"
    ELSE IF \E g \in SkippedGlyphs : StartsWith(trimmedLine, g) THEN "skip_symbol"
    ELSE IF /\ Len(trimmedLine) >= MinSeparatorLen
            /\ \A i \in 1..Len(trimmedLine) : trimmedLine[i] \in {"-", "*", "_"}
    THEN "skip_separator"
    ELSE IF StartsWith(trimmedLine, <<"u00C2","u00B7">>) THEN "skip_bullet"
    ELSE "append"

\* currentSpeaker.dialogue after the continuation line is appended
AppendDialogue(dialogue, trimmedLine) ==
    IF dialogue # << >> THEN dialogue \o <<" ">> \o trimmedLine ELSE trimmedLine

\* What one iteration of the loop leaves: parsedLines, currentSpeaker and the
\* way the iteration ended.
Left(lines, current, how) ==
    [parsedLines |-> lines, currentSpeaker |-> current, outcome |-> how]

\* A cue whose new ParsedLine is stored in the object already pushed: the
\* emitted entry is the new line.
AcceptCueAliased(new, lines, current) ==
    Left(IF current # << >> THEN Append(lines, new) ELSE lines, <<new>>, "cue")

\* if (currentSpeaker) parsedLines.push(currentSpeaker);
\* currentSpeaker = { ... }; continue;
AcceptCue(new, lines, current) ==
    Left(IF current # << >> THEN Append(lines, current[1]) ELSE lines, <<new>>, "cue")

\* The continuation logic: if (currentSpeaker) { ... }
Continuation(line, lines, current) ==
    LET trimmedLine == Trim(line)
        filter == ContinuationFilter(trimmedLine)
    IN  IF current = << >> THEN Left(lines, current, "no_speaker")
        ELSE IF filter # "append" THEN Left(lines, current, filter)
        ELSE Left(lines,
                  <<[current[1] EXCEPT
                       !.dialogue = AppendDialogue(current[1].dialogue, trimmedLine)]>>,
                  "append")

\* The loop body with the markdown and colon-digit rejections falling to the
\* continuation logic instead of "continue".
LoopBodyMarkersContinue(line, lines, current) ==
    LET c == Classified(line)
    IN  IF c.kind = "cue" THEN AcceptCue(c.line, lines, current)
        ELSE IF c.kind \in {"continuation", "markdown", "colon_digit"}
        THEN Continuation(line, lines, current)
        ELSE Left(lines, current, c.kind)

\* One iteration of the loop.  A line that is blank or rejected ends it by
\* "continue"; a line that matches no separator, or whose label is empty or
\* metadata, reaches the continuation logic.
LoopBody(line, lines, current) ==
    LET c == Classified(line)
    IN  IF c.kind = "cue" THEN AcceptCue(c.line, lines, current)
        ELSE IF c.kind = "continuation" THEN Continuation(line, lines, current)
        ELSE Left(lines, current, c.kind)

---------------------------------------------------------------------------
(* parseScriptContent on every script of up to MaxLines lines              *)

MaxLines == 3

MaxGateLines == 2

Init ==
    /\ script = << >>
    /\ parsedLines = << >>
    /\ currentSpeaker = << >>
    /\ outcome = "none"
    /\ pPc = "loop"
    /\ CleanIdle /\ MetaIdle /\ GroupIdle /\ GenIdle /\ CastIdle
    /\ UtilIdle /\ RetryIdle /\ AppIdle

\* One iteration of "for (const line of lines) { ... }"
Consume(line) ==
    LET r == LoopBody(line, parsedLines, currentSpeaker)
    IN  /\ script' = Append(script, line)
        /\ parsedLines' = r.parsedLines
        /\ currentSpeaker' = r.currentSpeaker
        /\ outcome' = r.outcome

ReadLine ==
    /\ pPc = "loop"
    /\ Len(script) < MaxLines
    /\ \E line \in ScriptLines : Consume(line)
    /\ UNCHANGED <<pPc, cleanVars, metaVars, groupVars, genVars, castVars,
                 utilVars, retryVars, appVars>>

\* The same iteration, in the scripts the rejections are tried on.
ReadGateLine ==
    /\ pPc = "loop"
    /\ Len(script) < MaxGateLines
    /\ \E line \in GateLines : Consume(line)
    /\ UNCHANGED <<pPc, cleanVars, metaVars, groupVars, genVars, castVars,
                 utilVars, retryVars, appVars>>

\* A return without the final push.
FinalPushNone(lines, current) == lines

\* if (currentSpeaker) parsedLines.push(currentSpeaker); return parsedLines;
FinalPush(lines, current) ==
    IF current # << >> THEN Append(lines, current[1]) ELSE lines

Return ==
    /\ pPc = "loop"
    /\ parsedLines' = FinalPush(parsedLines, currentSpeaker)
    /\ pPc' = "returned"
    /\ UNCHANGED <<script, currentSpeaker, outcome, cleanVars, metaVars, groupVars, genVars, castVars,
                 utilVars, retryVars, appVars>>

Next == ReadLine \/ Return

Spec == Init /\ [][Next]_vars

GateNext == ReadGateLine \/ Return

SpecGate == Init /\ [][GateNext]_vars

\* parseScriptContent as a function of the lines of the script
\* (scriptText.split('\n')): the loop, then the final push.
RECURSIVE RunLoop(_, _, _)
RunLoop(lines, parsed, current) ==
    IF lines = << >> THEN [parsedLines |-> parsed, currentSpeaker |-> current]
    ELSE LET r == LoopBody(Head(lines), parsed, current)
         IN  RunLoop(Tail(lines), r.parsedLines, r.currentSpeaker)

parseScriptContent(lines) ==
    LET r == RunLoop(lines, << >>, << >>)
    IN  FinalPush(r.parsedLines, r.currentSpeaker)

---------------------------------------------------------------------------
(* generateDramaAudio, step 1: grouping consecutive lines by speaker       *)

MaxParsed == 3

Speakers == {<<"H","e","r","o">>, <<"H","E","R","O">>, <<"A","n","n">>}

Dialogues == {<<>>, <<"a">>, <<"b"," ","c">>}

\* The ParsedLines the grouper is given, with the two fields it reads.
GroupLines == [speakerClean : Speakers, dialogue : Dialogues]

GroupInit ==
    /\ rawLines \in UNION {[1..n -> GroupLines] : n \in 0..MaxParsed}
    /\ gI = 0
    /\ currentSegment = << >>
    /\ segments = << >>
    /\ gPc = "start"
    /\ ParserIdle /\ CleanIdle /\ MetaIdle /\ GenIdle /\ CastIdle
    /\ UtilIdle /\ RetryIdle /\ AppIdle

\* if (rawLines.length === 0) return [];
GroupEmpty ==
    /\ gPc = "start"
    /\ Len(rawLines) = 0
    /\ gPc' = "returned"
    /\ UNCHANGED <<rawLines, gI, currentSegment, segments>>
    /\ UNCHANGED <<parserVars, cleanVars, metaVars, genVars, castVars,
                 utilVars, retryVars, appVars>>

\* let currentSegment = { speaker: rawLines[0].speakerClean, text: rawLines[0].dialogue };
GroupFirst ==
    /\ gPc = "start"
    /\ Len(rawLines) # 0
    /\ currentSegment' = <<[speaker |-> rawLines[1].speakerClean,
                            text |-> rawLines[1].dialogue]>>
    /\ gI' = 1
    /\ gPc' = "loop"
    /\ UNCHANGED <<rawLines, segments>>
    /\ UNCHANGED <<parserVars, cleanVars, metaVars, genVars, castVars,
                 utilVars, retryVars, appVars>>

\* A comparison of the lower-cased names.
SameSpeakerIgnoringCase(a, b) == ToLowerCase(a) = ToLowerCase(b)

\* line.speakerClean === currentSegment.speaker
SameSpeaker(a, b) == a = b

\* currentSegment.text += " " + line.dialogue
ExtendText(text, dialogue) == text \o <<" ">> \o dialogue

\* for (let i = 1; i < rawLines.length; i++) { ... }: rawLines[i] is
\* rawLines[gI + 1] of the 1-based sequence.
GroupStep ==
    /\ gPc = "loop"
    /\ gI < Len(rawLines)
    /\ LET line == rawLines[gI + 1]
       IN  IF SameSpeaker(line.speakerClean, currentSegment[1].speaker)
           THEN /\ currentSegment' =
                       <<[currentSegment[1] EXCEPT
                            !.text = ExtendText(currentSegment[1].text, line.dialogue)]>>
                /\ UNCHANGED segments
           ELSE /\ segments' = Append(segments, currentSegment[1])
                /\ currentSegment' = <<[speaker |-> line.speakerClean,
                                        text |-> line.dialogue]>>
    /\ gI' = gI + 1
    /\ UNCHANGED <<rawLines, gPc>>
    /\ UNCHANGED <<parserVars, cleanVars, metaVars, genVars, castVars,
                 utilVars, retryVars, appVars>>

\* The end of the loop without the push of the last segment.
GroupPushSkipped ==
    /\ gPc = "loop"
    /\ gI >= Len(rawLines)
    /\ gPc' = "grouped"
    /\ UNCHANGED <<rawLines, gI, currentSegment, segments>>
    /\ UNCHANGED <<parserVars, cleanVars, metaVars, genVars, castVars,
                 utilVars, retryVars, appVars>>

\* segments.push(currentSegment);
GroupPush ==
    /\ gPc = "loop"
    /\ gI >= Len(rawLines)
    /\ segments' = Append(segments, currentSegment[1])
    /\ gPc' = "grouped"
    /\ UNCHANGED <<rawLines, gI, currentSegment>>
    /\ UNCHANGED <<parserVars, cleanVars, metaVars, genVars, castVars,
                 utilVars, retryVars, appVars>>

GroupNext == GroupEmpty \/ GroupFirst \/ GroupStep \/ GroupPush

SpecGroup == GroupInit /\ [][GroupNext]_vars

---------------------------------------------------------------------------
(* generateDramaAudio, steps 2 and 3: the synthesis loop, and the caller   *)
(* handleGenerateAudio that assembles the buffer.                          *)
(*                                                                         *)
(* A pitch is a sequence: <<80>> is 0.8, in hundredths, and << >> is NaN.   *)
(* onProgress(status) is the setGenerationStatus(status) that              *)
(* handleGenerateAudio passes.                                             *)

NaN == << >>

AVAILABLE_VOICES == <<"Puck", "Charon", "Kore", "Fenrir", "Zephyr">>

MAX_RETRIES == 10

InitialDelay == 6000

ThrottledDelay == 15000

BackoffUnit == 10000

\* The lines of the scripts a run is given.
MaxGenLines == 3

GenLines == [speakerClean : {<<"H","e","r","o">>, <<"A","n","n">>}, dialogue : {<<"a">>, <<"(","x",")">>}]

\* The casts a run is given: every speaker cast, and a speaker left out.
GenCasts ==
    {<<[name |-> <<"H","E","R","O">>, voice |-> "Puck", pitch |-> <<80>>],
       [name |-> <<"A","n","n">>, voice |-> "Kore", pitch |-> <<120>>]>>,
     <<[name |-> <<"H","E","R","O">>, voice |-> "Charon", pitch |-> NaN]>>}

\* The frames of a response's audio.
AudioFrames == {1, 2}

GenInit ==
    /\ rawLines \in UNION {[1..n -> GenLines] : n \in 0..MaxGenLines}
    /\ gI = 0
    /\ currentSegment = << >>
    /\ segments = << >>
    /\ gPc = "start"
    /\ characters \in GenCasts
    /\ castScript = << >>
    /\ voiceRegistry = << >>
    /\ dropped = {}
    /\ castPc = "idle"
    /\ castSteps = 0
    /\ ParserIdle /\ CleanIdle /\ MetaIdle /\ GenIdle
    /\ UtilIdle /\ RetryIdle /\ AppRunning

\* The field of the last character whose name is the key as it is spelled.
MapGetExact(chars, field, key) ==
    LET at == {k \in 1..Len(chars) : chars[k].name = key}
    IN  IF at = {} THEN << >> ELSE <<chars[Max(at)][field]>>

\* characters.forEach(c => map.set(c.name.toLowerCase(), c[field])); map.get(key):
\* the field of the last character of that lower-cased name, in a sequence of
\* length 0 (undefined) or 1.
MapGet(chars, field, key) ==
    LET at == {k \in 1..Len(chars) : ToLowerCase(chars[k].name) = key}
    IN  IF at = {} THEN << >> ELSE <<chars[Max(at)][field]>>

\* s.replace(/\s+/g, ' ')
CollapseSpaces(s) ==
    IF \E i \in 1..Len(s) : s[i] \in WhiteSpace
    THEN Join(Split(s, WhiteSpace), <<" ">>)
    ELSE s

\* segment.text.replace(/\(.*?\)/g, '').replace(/\s+/g, ' ').trim(): each call
\* is made on the string the call before it returned.
CleanText(text) ==
    CHOOSE cleaned \in
        {Trim(collapsed) : collapsed \in
            {CollapseSpaces(removed) : removed \in {RemoveParens(text)}}} : TRUE

\* const voiceMap = ...; const audioResults = []; let currentDelay = 6000;
GenStart ==
    /\ gPc = "grouped"
    /\ sPc = "idle"
    /\ sI' = 0
    /\ currentDelay' = InitialDelay
    /\ audioResults' = << >>
    /\ sPc' = "segment"
    /\ UNCHANGED <<retries, success, error, outstanding, requestCount, segmentRequests, waited,
                   lastOutcome, speechBuffer>>
    /\ UNCHANGED <<parserVars, cleanVars, metaVars, groupVars, castVars,
                 utilVars, retryVars, appVars>>

\* The loop "for (let i = 0; i < segments.length; i++)" is left: return audioResults;
GenReturn ==
    /\ sPc = "segment"
    /\ sI >= Len(segments)
    /\ sPc' = "returned"
    /\ UNCHANGED <<sI, retries, success, currentDelay, audioResults, error,
                   outstanding, requestCount, segmentRequests, waited, lastOutcome, speechBuffer>>
    /\ UNCHANGED <<parserVars, cleanVars, metaVars, groupVars, castVars,
                 utilVars, retryVars, appVars>>

\* if (!voice) throw new Error(`Speaker "${segment.speaker}" is in the script but ...`);
GenUnassigned ==
    /\ sPc = "segment"
    /\ sI < Len(segments)
    /\ MapGet(characters, "voice", ToLowerCase(segments[sI + 1].speaker)) = << >>
    /\ error' = <<[kind |-> "unassigned", speaker |-> segments[sI + 1].speaker]>>
    /\ sPc' = "threw"
    /\ UNCHANGED <<sI, retries, success, currentDelay, audioResults,
                   outstanding, requestCount, segmentRequests, waited, lastOutcome, speechBuffer>>
    /\ UNCHANGED <<parserVars, cleanVars, metaVars, groupVars, castVars,
                 utilVars, retryVars, appVars>>

\* if (!cleanText) continue;
GenSkipEmpty ==
    /\ sPc = "segment"
    /\ sI < Len(segments)
    /\ MapGet(characters, "voice", ToLowerCase(segments[sI + 1].speaker)) # << >>
    /\ CleanText(segments[sI + 1].text) = << >>
    /\ sI' = sI + 1
    /\ UNCHANGED <<retries, success, currentDelay, audioResults, sPc, error,
                   outstanding, requestCount, segmentRequests, waited, lastOutcome, speechBuffer>>
    /\ UNCHANGED <<parserVars, cleanVars, metaVars, groupVars, castVars,
                 utilVars, retryVars, appVars>>

\* The attempts of a segment begun with the retries of the one before.
GenBeginNoReset ==
    /\ sPc = "segment"
    /\ sI < Len(segments)
    /\ MapGet(characters, "voice", ToLowerCase(segments[sI + 1].speaker)) # << >>
    /\ CleanText(segments[sI + 1].text) # << >>
    /\ success' = FALSE
    /\ segmentRequests' = 0
    /\ sPc' = "attempt"
    /\ UNCHANGED <<sI, retries, currentDelay, audioResults, error,
                   outstanding, requestCount, waited, lastOutcome, speechBuffer>>
    /\ UNCHANGED <<parserVars, cleanVars, metaVars, groupVars, castVars,
                 utilVars, retryVars, appVars>>

\* let retries = 0; let success = false;
GenBegin ==
    /\ sPc = "segment"
    /\ sI < Len(segments)
    /\ MapGet(characters, "voice", ToLowerCase(segments[sI + 1].speaker)) # << >>
    /\ CleanText(segments[sI + 1].text) # << >>
    /\ retries' = 0
    /\ success' = FALSE
    /\ segmentRequests' = 0
    /\ sPc' = "attempt"
    /\ UNCHANGED <<sI, currentDelay, audioResults, error,
                   outstanding, requestCount, waited, lastOutcome, speechBuffer>>
    /\ UNCHANGED <<parserVars, cleanVars, metaVars, groupVars, castVars,
                 utilVars, retryVars, appVars>>

\* A call that is made and not awaited: the loop goes on to its next attempt.
GenRequestNotAwaited ==
    /\ sPc = "attempt"
    /\ ~success /\ retries < MAX_RETRIES
    /\ outstanding < 3
    /\ outstanding' = outstanding + 1
    /\ requestCount' = requestCount + 1
    /\ segmentRequests' = segmentRequests + 1
    /\ waited' = 0
    /\ UNCHANGED <<sI, retries, success, currentDelay, audioResults, sPc, error,
                   lastOutcome, speechBuffer>>
    /\ generationStatus' = "Directing Actor..."
    /\ UNCHANGED <<isGeneratingAudio, runs, playVars>>
    /\ UNCHANGED <<parserVars, cleanVars, metaVars, groupVars, castVars,
                   utilVars, retryVars>>

\* while (!success && retries < MAX_RETRIES) { ... await ai.models.generateContent(...)
GenRequest ==
    /\ sPc = "attempt"
    /\ ~success /\ retries < MAX_RETRIES
    /\ outstanding' = outstanding + 1
    /\ requestCount' = requestCount + 1
    /\ segmentRequests' = segmentRequests + 1
    /\ waited' = 0
    /\ sPc' = "awaiting"
    /\ UNCHANGED <<sI, retries, success, currentDelay, audioResults, error,
                   lastOutcome, speechBuffer>>
    /\ generationStatus' = "Directing Actor..."
    /\ UNCHANGED <<isGeneratingAudio, runs, playVars>>
    /\ UNCHANGED <<parserVars, cleanVars, metaVars, groupVars, castVars,
                   utilVars, retryVars>>

\* The call resolves with audio: audioResults.push({ audio, speaker }); success = true;
GenResponseAudio ==
    /\ sPc = "awaiting"
    /\ \E frames \in AudioFrames :
          audioResults' = Append(audioResults,
                                 [audio |-> [of |-> sI, frames |-> frames],
                                  speaker |-> segments[sI + 1].speaker])
    /\ success' = TRUE
    /\ outstanding' = outstanding - 1
    /\ lastOutcome' = "success"
    /\ sPc' = "pause"
    /\ UNCHANGED <<sI, retries, currentDelay, error, requestCount, segmentRequests, waited, speechBuffer>>
    /\ UNCHANGED <<parserVars, cleanVars, metaVars, groupVars, castVars,
                 utilVars, retryVars, appVars>>

\* The loop going on to i + 1 with no delay.
GenPauseNoDelay ==
    /\ sPc = "pause"
    /\ sI' = sI + 1
    /\ sPc' = "segment"
    /\ UNCHANGED <<retries, success, currentDelay, audioResults, error,
                   outstanding, requestCount, segmentRequests, waited, lastOutcome, speechBuffer>>
    /\ UNCHANGED <<parserVars, cleanVars, metaVars, groupVars, castVars,
                 utilVars, retryVars, appVars>>

\* if (i < segments.length - 1) await delay(currentDelay); the while loop is
\* left with success, and the for loop goes on to i + 1.
GenPause ==
    /\ sPc = "pause"
    /\ waited' = IF sI < Len(segments) - 1 THEN waited + currentDelay ELSE waited
    /\ sI' = sI + 1
    /\ sPc' = "segment"
    /\ UNCHANGED <<retries, success, currentDelay, audioResults, error,
                   outstanding, requestCount, segmentRequests, lastOutcome, speechBuffer>>
    /\ UNCHANGED <<parserVars, cleanVars, metaVars, groupVars, castVars,
                 utilVars, retryVars, appVars>>

\* The call resolves without audio: throw new Error("API returned empty audio
\* data"), which the catch rethrows, its message naming no rate limit.
GenResponseEmpty ==
    /\ sPc = "awaiting"
    /\ outstanding' = outstanding - 1
    /\ error' = <<[kind |-> "empty", speaker |-> segments[sI + 1].speaker]>>
    /\ sPc' = "threw"
    /\ UNCHANGED <<sI, retries, success, currentDelay, audioResults,
                   requestCount, segmentRequests, waited, lastOutcome, speechBuffer>>
    /\ UNCHANGED <<parserVars, cleanVars, metaVars, groupVars, castVars,
                 utilVars, retryVars, appVars>>

\* The call rejects, with a message that names no rate limit: throw error;
GenResponseFatal ==
    /\ sPc = "awaiting"
    /\ outstanding' = outstanding - 1
    /\ error' = <<[kind |-> "fatal", speaker |-> segments[sI + 1].speaker]>>
    /\ sPc' = "threw"
    /\ UNCHANGED <<sI, retries, success, currentDelay, audioResults,
                   requestCount, segmentRequests, waited, lastOutcome, speechBuffer>>
    /\ UNCHANGED <<parserVars, cleanVars, metaVars, groupVars, castVars,
                 utilVars, retryVars, appVars>>

\* The call rejects with '429', 'quota', 'resource_exhausted', 'overloaded' or
\* '503': retries++; currentDelay is raised to 15000; the wait loop runs for
\* 10000 * retries ms.
GenResponseLimited ==
    /\ sPc = "awaiting"
    /\ outstanding' = outstanding - 1
    /\ retries' = retries + 1
    /\ currentDelay' = IF currentDelay < ThrottledDelay THEN ThrottledDelay
                                                         ELSE currentDelay
    /\ waited' = waited + BackoffUnit * retries'
    /\ lastOutcome' = "limited"
    /\ sPc' = "attempt"
    /\ UNCHANGED <<sI, success, audioResults, error, requestCount, segmentRequests, speechBuffer>>
    /\ generationStatus' = "Rate limited. Waiting for quota..."
    /\ UNCHANGED <<isGeneratingAudio, runs, playVars>>
    /\ UNCHANGED <<parserVars, cleanVars, metaVars, groupVars, castVars,
                   utilVars, retryVars>>

\* The retries end with a return of what was synthesized so far.
GenExhaustedReturnsPartial ==
    /\ sPc = "attempt"
    /\ ~success /\ retries >= MAX_RETRIES
    /\ sPc' = "returned"
    /\ UNCHANGED <<sI, retries, success, currentDelay, audioResults, error,
                   outstanding, requestCount, segmentRequests, waited, lastOutcome, speechBuffer>>
    /\ UNCHANGED <<parserVars, cleanVars, metaVars, groupVars, castVars,
                 utilVars, retryVars, appVars>>

\* if (!success) throw new Error(`Failed to generate audio for ${segment.speaker}. ...`);
GenExhausted ==
    /\ sPc = "attempt"
    /\ ~success /\ retries >= MAX_RETRIES
    /\ error' = <<[kind |-> "ratelimit", speaker |-> segments[sI + 1].speaker]>>
    /\ sPc' = "threw"
    /\ UNCHANGED <<sI, retries, success, currentDelay, audioResults,
                   outstanding, requestCount, segmentRequests, waited, lastOutcome, speechBuffer>>
    /\ UNCHANGED <<parserVars, cleanVars, metaVars, groupVars, castVars,
                 utilVars, retryVars, appVars>>

---------------------------------------------------------------------------
(* The audio utilities.                                                    *)
(*                                                                         *)
(* An AudioBuffer is a record of its numberOfChannels, its sampleRate and  *)
(* its channelData, the samples of each channel.  A sample is an integer,  *)
(* the count of 1/32768 it holds: 32768 is 1.0 and -16384 is -0.5.  A rate *)
(* is in hundredths, as a pitch is.                                        *)

SampleUnit == 32768

\* const sampleRate = 24000; const numChannels = 1;
ProviderRate == 24000

\* context.sampleRate, the rate of the device
ContextRate == 48000

\* buffer.length
Length(buffer) == Len(buffer.channelData[1])

\* context.createBuffer(numberOfChannels, length, sampleRate): silence
createBuffer(numberOfChannels, length, sampleRate) ==
    [numberOfChannels |-> numberOfChannels,
     sampleRate |-> sampleRate,
     channelData |-> [c \in 1..numberOfChannels |-> [i \in 1..length |-> 0]]]

\* decodeAudioData: one channel at 24000 Hz, a sample for each frame of the
\* audio.  The PCM value of every frame of the audio synthesized for segment
\* i is i + 1, and channelData[i] = dataInt16[i] / 32768.0 is that count.
decodeAudioData(audio) ==
    [numberOfChannels |-> 1,
     sampleRate |-> ProviderRate,
     channelData |-> <<[k \in 1..audio.frames |-> audio.of + 1]>>]

\* Math.round(x / y) of two positive integers
RoundDiv(x, y) == (2 * x + y) \div (2 * y)

\* output[i] of resampleBuffer, i from 0: position = i * rate, and the
\* interpolation of input[index] and input[index + 1], to the count below.
Interpolated(input, i, rate) ==
    LET index == (i * rate) \div 100
        fraction == (i * rate) % 100
    IN  IF index >= Len(input) - 1 THEN input[Len(input)]
        ELSE (input[index + 1] * (100 - fraction) + input[index + 2] * fraction)
                 \div 100

\* The new length taken as the length of the buffer.
SameLength(buffer, rate) == Length(buffer)

\* const newLength = Math.round(buffer.length / rate);
NewLength(buffer, rate) == RoundDiv(100 * Length(buffer), rate)

\* resampleBuffer: the buffer itself at rate 1.0, else a buffer of newLength
\* samples in each channel, at the sample rate of the buffer.
resampleBuffer(buffer, rate) ==
    IF rate = 100 THEN buffer
    ELSE [numberOfChannels |-> buffer.numberOfChannels,
          sampleRate |-> buffer.sampleRate,
          channelData |->
              [c \in 1..buffer.numberOfChannels |->
                  [i \in 1..NewLength(buffer, rate) |->
                      Interpolated(buffer.channelData[c], i - 1, rate)]]]

\* charPitchMap.get(segment.speaker.toLowerCase()) || 1.0
PitchOf(chars, speaker) ==
    LET pitch == MapGet(chars, "pitch", ToLowerCase(speaker))
    IN  IF pitch = << >> \/ pitch[1] = NaN \/ pitch[1] = <<0>> THEN 100 ELSE pitch[1][1]

\* for (const segment of segments) { ...; processedBuffers.push(finalBuffer); }
RECURSIVE ProcessedBuffers(_, _)
ProcessedBuffers(results, chars) ==
    IF results = << >> THEN << >>
    ELSE <<resampleBuffer(decodeAudioData(Head(results).audio),
                          PitchOf(chars, Head(results).speaker))>>
         \o ProcessedBuffers(Tail(results), chars)

\* resultData.set(source, offset)
SetAt(resultData, source, offset) ==
    [p \in 1..Len(resultData) |->
        IF p > offset /\ p <= offset + Len(source) THEN source[p - offset]
        ELSE resultData[p]]

\* for (let channel = 0; channel < numberOfChannels; channel++) { ... }: a
\* channel the buffer has is set at the offset, and a mono buffer is set in
\* every channel.
SetChannels(result, buffer, offset) ==
    [result EXCEPT !.channelData =
        [channel \in 1..result.numberOfChannels |->
            IF channel <= buffer.numberOfChannels
            THEN SetAt(result.channelData[channel], buffer.channelData[channel], offset)
            ELSE IF buffer.numberOfChannels = 1
            THEN SetAt(result.channelData[channel], buffer.channelData[1], offset)
            ELSE result.channelData[channel]]]

\* The offset left where it is.
OffsetUnmoved(offset, buffer) == offset

\* offset += buffer.length;
NextOffset(offset, buffer) == offset + Length(buffer)

\* for (const buffer of buffers) { ...; offset += buffer.length; }
RECURSIVE ConcatenateFrom(_, _, _)
ConcatenateFrom(buffers, result, offset) ==
    IF buffers = << >> THEN result
    ELSE ConcatenateFrom(Tail(buffers),
                         SetChannels(result, Head(buffers), offset),
                         NextOffset(offset, Head(buffers)))

\* buffers.reduce((acc, b) => acc + b.length, 0)
RECURSIVE TotalLength(_)
TotalLength(buffers) ==
    IF buffers = << >> THEN 0
    ELSE Length(Head(buffers)) + TotalLength(Tail(buffers))

\* concatenateAudioBuffers: a buffer of the channel count and the sample
\* rate of the first buffer, each buffer set at the offset the buffers
\* before it add up to.
concatenateAudioBuffers(buffers) ==
    IF Len(buffers) = 0 THEN createBuffer(1, 1, ContextRate)
    ELSE ConcatenateFrom(buffers,
                         createBuffer(buffers[1].numberOfChannels,
                                      TotalLength(buffers),
                                      buffers[1].sampleRate),
                         0)

\* The buffers stitched last to first.
ConcatenateReversed(buffers) ==
    concatenateAudioBuffers([k \in 1..Len(buffers) |-> buffers[Len(buffers) + 1 - k]])

\* view.setUint16(pos, data, true) and view.setUint32(pos, data, true): the
\* bytes of data, the low byte first.
Uint16(data) == <<data % 256, (data \div 256) % 256>>

Uint32(data) ==
    <<data % 256, (data \div 256) % 256, (data \div 65536) % 256,
      (data \div 16777216) % 256>>

\* view.setInt16(44 + offset, sample, true)
Int16(sample) == Uint16(sample % 65536)

\* The 44 bytes of "write WAVE header", for a blob of length bytes.
WavHeader(buffer, length) ==
    LET numOfChan == buffer.numberOfChannels
    IN  Uint32(1179011410)                            \* 0x46464952 "RIFF"
        \o Uint32(length - 8)
        \o Uint32(1163280727)                         \* 0x45564157 "WAVE"
        \o Uint32(544501094)                          \* 0x20746d66 "fmt "
        \o Uint32(16)
        \o Uint16(1)
        \o Uint16(numOfChan)
        \o Uint32(buffer.sampleRate)
        \o Uint32(buffer.sampleRate * 2 * numOfChan)
        \o Uint16(numOfChan * 2)
        \o Uint16(16)
        \o Uint32(1635017060)                         \* 0x61746164 "data"
        \o Uint32(length - 40 - 4)

\* Math.max(-1, Math.min(1, channels[i][pos]))
ClampSample(sample) ==
    IF sample < -SampleUnit THEN -SampleUnit
    ELSE IF sample > SampleUnit THEN SampleUnit
    ELSE sample

\* x | 0 of the quotient num / den, den positive: the fraction is dropped
Trunc(num, den) == IF num >= 0 THEN num \div den ELSE -((-num) \div den)

\* (0.5 + sample < 0 ? sample * 32768 : sample * 32767) | 0
ScaleSample(sample) ==
    IF SampleUnit + 2 * sample < 0 THEN Trunc(sample * 32768, SampleUnit)
    ELSE Trunc(sample * 32767, SampleUnit)

\* for (i = 0; i < numOfChan; i++) { ...; view.setInt16(44 + offset, sample, true);
\* offset += 2; }: the bytes of the frame at pos, channel after channel.
FrameBytes(buffer, pos) ==
    LET RECURSIVE from(_)
        from(i) ==
            IF i >= buffer.numberOfChannels THEN << >>
            ELSE Int16(ScaleSample(ClampSample(buffer.channelData[i + 1][pos + 1])))
                 \o from(i + 1)
    IN  from(0)

\* while (pos < buffer.length) { ...; pos++; }: the view after the loop,
\* from the value pos and offset have when it is entered.
RECURSIVE WriteFrames(_, _, _, _)
WriteFrames(buffer, pos, offset, view) ==
    IF pos < Length(buffer)
    THEN WriteFrames(buffer, pos + 1, offset + 2 * buffer.numberOfChannels,
                     SetAt(view, FrameBytes(buffer, pos), 44 + offset))
    ELSE view

\* audioBufferToWav: the bytes of the Blob.  The header's writes leave pos
\* at 44, and the loop over the frames goes on from that pos.
audioBufferToWav(buffer) ==
    LET length == Length(buffer) * buffer.numberOfChannels * 2 + 44
        header == WavHeader(buffer, length)
        view == header \o [k \in 1..(length - 44) |-> 0]
    IN  WriteFrames(buffer, Len(header), 0, view)

\* What the await of generateDramaAudio resolved with.
Returned == gPc = "returned" \/ sPc = "returned"

\* finally { setIsGeneratingAudio(false); setGenerationStatus(''); }
Finally ==
    /\ isGeneratingAudio' = FALSE
    /\ generationStatus' = ""

\* The handler with the buffers stitched last to first.
HandlerAssembleReversed ==
    /\ Returned
    /\ sPc # "done"
    /\ Len(audioResults) > 0
    /\ \E processedBuffers \in {ProcessedBuffers(audioResults, characters)} :
          \E combinedBuffer \in {ConcatenateReversed(processedBuffers)} :
              /\ speechBuffer' = <<combinedBuffer>>
              /\ duration' = Length(combinedBuffer)
    /\ pauseOffset' = 0
    /\ currentTime' = 0
    /\ Finally
    /\ sPc' = "done"
    /\ UNCHANGED <<sI, retries, success, currentDelay, audioResults, error,
                   outstanding, requestCount, segmentRequests, waited, lastOutcome>>
    /\ UNCHANGED <<isPlaying, speechSource, elapsed, raf, runs>>
    /\ UNCHANGED <<parserVars, cleanVars, metaVars, groupVars, castVars,
                   utilVars, retryVars>>

\* if (segments && segments.length > 0) { ...; setSpeechBuffer(combinedBuffer);
\* setDuration(combinedBuffer.duration); pauseOffsetRef.current = 0;
\* setCurrentTime(0); } and the finally.  The duration is in frames.
HandlerAssemble ==
    /\ Returned
    /\ sPc # "done"
    /\ Len(audioResults) > 0
    /\ \E processedBuffers \in {ProcessedBuffers(audioResults, characters)} :
          \E combinedBuffer \in {concatenateAudioBuffers(processedBuffers)} :
              /\ speechBuffer' = <<combinedBuffer>>
              /\ duration' = Length(combinedBuffer)
    /\ pauseOffset' = 0
    /\ currentTime' = 0
    /\ Finally
    /\ sPc' = "done"
    /\ UNCHANGED <<sI, retries, success, currentDelay, audioResults, error,
                   outstanding, requestCount, segmentRequests, waited, lastOutcome>>
    /\ UNCHANGED <<isPlaying, speechSource, elapsed, raf, runs>>
    /\ UNCHANGED <<parserVars, cleanVars, metaVars, groupVars, castVars,
                   utilVars, retryVars>>

\* else { alert("Could not generate audio. ..."); } and the finally
HandlerNoSegments ==
    /\ Returned
    /\ sPc # "done"
    /\ Len(audioResults) = 0
    /\ Finally
    /\ sPc' = "done"
    /\ UNCHANGED <<sI, retries, success, currentDelay, audioResults, error,
                   outstanding, requestCount, segmentRequests, waited, lastOutcome, speechBuffer>>
    /\ UNCHANGED <<runs, playVars>>
    /\ UNCHANGED <<parserVars, cleanVars, metaVars, groupVars, castVars,
                   utilVars, retryVars>>

\* The catch that also drops the buffer assembled before.
HandlerCatchClearing ==
    /\ sPc = "threw"
    /\ speechBuffer' = << >>
    /\ duration' = 0
    /\ Finally
    /\ sPc' = "done"
    /\ UNCHANGED <<sI, retries, success, currentDelay, audioResults, error,
                   outstanding, requestCount, segmentRequests, waited, lastOutcome>>
    /\ UNCHANGED <<runs, isPlaying, speechSource, pauseOffset, currentTime, elapsed, raf>>
    /\ UNCHANGED <<parserVars, cleanVars, metaVars, groupVars, castVars,
                   utilVars, retryVars>>

\* catch (error) { alert(`Audio Generation Failed: ${error.message}...`); }
\* and the finally
HandlerCatch ==
    /\ sPc = "threw"
    /\ Finally
    /\ sPc' = "done"
    /\ UNCHANGED <<sI, retries, success, currentDelay, audioResults, error,
                   outstanding, requestCount, segmentRequests, waited, lastOutcome, speechBuffer>>
    /\ UNCHANGED <<runs, playVars>>
    /\ UNCHANGED <<parserVars, cleanVars, metaVars, groupVars, castVars,
                   utilVars, retryVars>>

GenNext ==
    \/ GroupEmpty \/ GroupFirst \/ GroupStep \/ GroupPush
    \/ GenStart \/ GenReturn \/ GenUnassigned \/ GenSkipEmpty \/ GenBegin
    \/ GenRequest \/ GenResponseAudio \/ GenPause \/ GenResponseEmpty
    \/ GenResponseFatal \/ GenResponseLimited \/ GenExhausted
    \/ HandlerAssemble \/ HandlerNoSegments \/ HandlerCatch

SpecGen == GenInit /\ [][GenNext]_vars

\* The runs on the shorter scripts, every step of which is taken in the end:
\* a call of the provider settles, and a delay() runs out.
MaxLiveLines == 2

GenLiveInit == GenInit /\ Len(rawLines) <= MaxLiveLines

\* The steps of generateDramaAudio, those of the handler that awaits it left out.
GenDramaStep ==
    \/ GroupEmpty \/ GroupFirst \/ GroupStep \/ GroupPush
    \/ GenStart \/ GenReturn \/ GenUnassigned \/ GenSkipEmpty \/ GenBegin
    \/ GenRequest \/ GenResponseAudio \/ GenPause \/ GenResponseEmpty
    \/ GenResponseFatal \/ GenResponseLimited \/ GenExhausted

SpecGenLive == GenLiveInit /\ [][GenNext]_vars /\ WF_vars(GenDramaStep)

---------------------------------------------------------------------------
(* App: the runs of handleGenerateAudio, and the playback of speechBuffer. *)
(* The times are in frames: the duration of a buffer is its length, and an *)
(* animation frame comes one frame after the one before.                   *)

\* The runs of handleGenerateAudio that are started.
MaxRuns == 2

\* The ParsedLines of the scripts a run is started on: no line at all, two
\* lines of one speaker, a line that is all parentheses before the line of
\* another speaker, and a speaker that is not cast.
AppScripts ==
    {<< >>,
     <<[speakerClean |-> <<"H","e","r","o">>, dialogue |-> <<"a">>],
       [speakerClean |-> <<"H","e","r","o">>, dialogue |-> <<"a">>]>>,
     <<[speakerClean |-> <<"H","e","r","o">>, dialogue |-> <<"(","x",")">>],
       [speakerClean |-> <<"A","n","n">>, dialogue |-> <<"a">>]>>,
     <<[speakerClean |-> <<"B","o","b">>, dialogue |-> <<"a">>]>>}

\* The cast of the runs.
AppCast ==
    <<[name |-> <<"H","E","R","O">>, voice |-> "Puck", pitch |-> <<80>>],
      [name |-> <<"A","n","n">>, voice |-> "Kore", pitch |-> <<120>>]>>

\* The state of App after it mounted, a cast in place.
AppInit ==
    /\ characters = AppCast
    /\ castScript = << >>
    /\ voiceRegistry = << >>
    /\ dropped = {}
    /\ castPc = "idle"
    /\ castSteps = 0
    /\ ParserIdle /\ CleanIdle /\ MetaIdle /\ GroupIdle /\ GenIdle
    /\ UtilIdle /\ RetryIdle /\ AppIdle

\* stopAudio: cancelAnimationFrame(rafRef.current), the source stopped and
\* speechSourceRef.current = null, setIsPlaying(false).  The elapsed time,
\* which updateTime alone reads, is put back to 0 with it.
stopAudio ==
    /\ raf' = << >>
    /\ speechSource' = << >>
    /\ isPlaying' = FALSE
    /\ elapsed' = 0

\* handleGenerateAudio up to its await: setIsGeneratingAudio(true);
\* setGenerationStatus('Initializing audio generation...'); stopAudio();
\* generateDramaAudio(script, characters, ...).  The button that calls it is
\* loading while a run lasts, and disabled without a character.
HandlerStart ==
    /\ ~isGeneratingAudio
    /\ sPc \in {"idle", "done"}
    /\ runs < MaxRuns
    /\ Len(characters) >= 1
    /\ isGeneratingAudio' = TRUE
    /\ generationStatus' = "Initializing audio generation..."
    /\ stopAudio
    /\ runs' = runs + 1
    /\ rawLines' \in AppScripts
    /\ gI' = 0
    /\ currentSegment' = << >>
    /\ segments' = << >>
    /\ gPc' = "start"
    /\ sI' = 0
    /\ retries' = 0
    /\ success' = FALSE
    /\ currentDelay' = 0
    /\ audioResults' = << >>
    /\ sPc' = "idle"
    /\ error' = << >>
    /\ outstanding' = 0
    /\ requestCount' = 0
    /\ segmentRequests' = 0
    /\ waited' = 0
    /\ lastOutcome' = "none"
    /\ UNCHANGED <<speechBuffer, duration, pauseOffset, currentTime>>
    /\ UNCHANGED <<parserVars, cleanVars, metaVars, castVars, utilVars, retryVars>>

\* playAudio from its "Create Nodes" on: speechSource.buffer = speechBuffer;
\* startTimeRef.current = ctx.currentTime - offset; speechSource.start(0, offset);
\* setIsPlaying(true); rafRef.current = requestAnimationFrame(updateTime),
\* the updateTime that closes over this speechBuffer.
Play(offset) ==
    /\ speechSource' = speechBuffer
    /\ elapsed' = offset
    /\ isPlaying' = TRUE
    /\ raf' = speechBuffer

\* onPlayPause when nothing plays: playAudio(), which returns at once
\* without a speechBuffer.
playAudio ==
    /\ ~isPlaying
    /\ speechBuffer # << >>
    /\ Play(pauseOffset)
    /\ UNCHANGED <<isGeneratingAudio, generationStatus, runs, duration,
                   pauseOffset, currentTime>>
    /\ UNCHANGED <<parserVars, cleanVars, metaVars, groupVars, genVars, castVars,
                   utilVars, retryVars>>

\* onPlayPause when it plays: pauseAudio(): stopAudio();
\* pauseOffsetRef.current = currentTime;
pauseAudio ==
    /\ isPlaying
    /\ stopAudio
    /\ pauseOffset' = currentTime
    /\ UNCHANGED <<isGeneratingAudio, generationStatus, runs, duration, currentTime>>
    /\ UNCHANGED <<parserVars, cleanVars, metaVars, groupVars, genVars, castVars,
                   utilVars, retryVars>>

\* handleProgressClick, on the bar that is shown with a buffer: if (!duration)
\* return; onSeek(percentage * duration), and handleSeek(time):
\* if (wasPlaying) stopAudio(); pauseOffsetRef.current = time;
\* setCurrentTime(time); if (wasPlaying) playAudio();
handleSeek ==
    /\ speechBuffer # << >>
    /\ duration > 0
    /\ \E time \in 0..duration :
          /\ pauseOffset' = time
          /\ currentTime' = time
          /\ IF isPlaying THEN Play(time)
             ELSE UNCHANGED <<isPlaying, speechSource, elapsed, raf>>
    /\ UNCHANGED <<isGeneratingAudio, generationStatus, runs, duration>>
    /\ UNCHANGED <<parserVars, cleanVars, metaVars, groupVars, genVars, castVars,
                   utilVars, retryVars>>

\* The updateTime that is scheduled runs: elapsed = now - startTimeRef.current;
\* if (elapsed >= speechBuffer.duration) { stopAudio(); pauseOffsetRef.current = 0;
\* setCurrentTime(0); } else { setCurrentTime(elapsed); rafRef.current =
\* requestAnimationFrame(updateTime); }, of the speechBuffer it closed over.
updateTime ==
    /\ raf # << >>
    /\ LET now == elapsed + 1
       IN  IF now >= Length(raf[1])
           THEN /\ stopAudio
                /\ pauseOffset' = 0
                /\ currentTime' = 0
           ELSE /\ elapsed' = now
                /\ currentTime' = now
                /\ UNCHANGED <<raf, speechSource, isPlaying, pauseOffset>>
    /\ UNCHANGED <<isGeneratingAudio, generationStatus, runs, duration>>
    /\ UNCHANGED <<parserVars, cleanVars, metaVars, groupVars, genVars, castVars,
                   utilVars, retryVars>>

AppNext ==
    \/ HandlerStart
    \/ GroupEmpty \/ GroupFirst \/ GroupStep \/ GroupPush
    \/ GenStart \/ GenReturn \/ GenUnassigned \/ GenSkipEmpty \/ GenBegin
    \/ GenRequest \/ GenResponseAudio \/ GenPause \/ GenResponseEmpty
    \/ GenResponseFatal \/ GenResponseLimited \/ GenExhausted
    \/ HandlerAssemble \/ HandlerNoSegments \/ HandlerCatch
    \/ playAudio \/ pauseAudio \/ handleSeek \/ updateTime

SpecApp == AppInit /\ [][AppNext]_vars

\* The steps of a run of handleGenerateAudio after its start: those of
\* generateDramaAudio, and the handler's after the await.
AppRunStep ==
    \/ GenDramaStep
    \/ HandlerAssemble \/ HandlerNoSegments \/ HandlerCatch

\* Every step of a run is taken in the end; nobody has to press a button.
SpecAppLive == AppInit /\ [][AppNext]_vars /\ WF_vars(AppRunStep)

---------------------------------------------------------------------------
(* ScriptPanel: the cast derived from the script, and the voice registry.  *)
(*                                                                         *)
(* A Map is the sequence of its entries in insertion order.  A Character   *)
(* is told from the others by its id, which is unique: the handlers that   *)
(* take an id are given the Character's place in the list.                 *)

NeutralPitch == 100

MinPitch == 80

MaxPitch == 120

\* map.set(key, value): the value of an entry of that key is replaced where
\* the entry stands, and a new key is added last.
MapSet(map, key, value) ==
    IF \E k \in 1..Len(map) : map[k].key = key
    THEN [k \in 1..Len(map) |->
             IF map[k].key = key THEN [key |-> key, value |-> value] ELSE map[k]]
    ELSE Append(map, [key |-> key, value |-> value])

\* parsedLines.forEach(line => { ... }) over uniqueMap, lowercase key -> display name
RECURSIVE UniqueMap(_, _)
UniqueMap(speakers, uniqueMap) ==
    IF speakers = << >> THEN uniqueMap
    ELSE LET speakerClean == Head(speakers)
             lower == ToLowerCase(speakerClean)
             at == {k \in 1..Len(uniqueMap) : uniqueMap[k].key = lower}
         IN  IF at = {}
             THEN UniqueMap(Tail(speakers), MapSet(uniqueMap, lower, speakerClean))
             ELSE LET stored == uniqueMap[Min(at)].value
                  IN  IF stored = ToUpperCase(stored)
                         /\ speakerClean # ToUpperCase(speakerClean)
                      THEN UniqueMap(Tail(speakers),
                                     MapSet(uniqueMap, lower, speakerClean))
                      ELSE UniqueMap(Tail(speakers), uniqueMap)

\* The speakers by their first spelling in the script.
FirstSpellings(speakers) ==
    LET firsts == {i \in 1..Len(speakers) :
                      \A j \in 1..(i - 1) :
                          ToLowerCase(speakers[j]) # ToLowerCase(speakers[i])}
        place(k) == CHOOSE i \in firsts : Cardinality({j \in firsts : j < i}) = k - 1
    IN  [k \in 1..Cardinality(firsts) |-> speakers[place(k)]]

\* const foundSpeakers = Array.from(uniqueMap.values());
FoundSpeakers(speakers) ==
    LET uniqueMap == UniqueMap(speakers, << >>)
    IN  [k \in 1..Len(uniqueMap) |-> uniqueMap[k].value]

\* let regEntry = voiceRegistry.current.get(name); if (!regEntry) { the first
\* entry whose key equals name ignoring case }: a sequence of length 0 or 1.
RegistryEntry(registry, name) ==
    LET exact == {k \in 1..Len(registry) : registry[k].key = name}
        loose == {k \in 1..Len(registry) :
                     ToLowerCase(registry[k].key) = ToLowerCase(name)}
    IN  IF exact # {} THEN <<registry[Min(exact)].value>>
        ELSE IF loose # {} THEN <<registry[Min(loose)].value>>
        ELSE << >>

\* prevMap.get(lowerName): the last Character of prev of that lower-cased name.
PrevCharacter(prev, lowerName) ==
    LET at == {k \in 1..Len(prev) : ToLowerCase(prev[k].name) = lowerName}
    IN  IF at = {} THEN << >> ELSE <<prev[Max(at)]>>

\* The voice index left where it is.
SameVoiceIndex(voiceIndex) == voiceIndex

\* voiceIndex++
NextVoiceIndex(voiceIndex) == voiceIndex + 1

\* foundSpeakers.forEach(name => { ... }) of the setCharacters updater: the
\* new cast and the registry it leaves.
RECURSIVE DeriveFrom(_, _, _, _, _)
DeriveFrom(found, prev, registry, voiceIndex, newChars) ==
    IF found = << >> THEN [characters |-> newChars, voiceRegistry |-> registry]
    ELSE LET name == Head(found)
             existing == PrevCharacter(prev, ToLowerCase(name))
             regEntry == RegistryEntry(registry, name)
         IN  IF existing # << >>
             THEN DeriveFrom(Tail(found), prev, registry, voiceIndex,
                      Append(newChars,
                             IF regEntry # << >>
                             THEN [name |-> name, voice |-> regEntry[1].voice,
                                   pitch |-> regEntry[1].pitch]
                             ELSE [existing[1] EXCEPT !.name = name]))
             ELSE IF regEntry # << >>
             THEN DeriveFrom(Tail(found), prev, registry, voiceIndex,
                      Append(newChars,
                             [name |-> name, voice |-> regEntry[1].voice,
                              pitch |-> regEntry[1].pitch]))
             ELSE LET defaultVoice ==
                          AVAILABLE_VOICES[(voiceIndex % Len(AVAILABLE_VOICES)) + 1]
                  IN  DeriveFrom(Tail(found), prev,
                          MapSet(registry, name,
                                 [voice |-> defaultVoice, pitch |-> <<NeutralPitch>>]),
                          NextVoiceIndex(voiceIndex),
                          Append(newChars,
                                 [name |-> name, voice |-> defaultVoice,
                                  pitch |-> <<NeutralPitch>>]))

\* The effect of lines 78-175: the cast of a script whose ParsedLines have
\* these speakerClean, from the previous cast and the registry.
DeriveCast(speakers, prev, registry) ==
    DeriveFrom(FoundSpeakers(speakers), prev, registry, 0, << >>)

\* The Characters that derivations left out and did not bring back: those
\* of before that are not in after, and those remembered that are not in
\* after either.
Dropped(before, after, remembered) ==
    LET gone(c) == \A k \in 1..Len(after) :
                       ToLowerCase(after[k].name) # ToLowerCase(c.name)
    IN  {d \in remembered : gone(d)}
            \cup {before[k] : k \in {j \in 1..Len(before) : gone(before[j])}}

\* The scripts, each by the speakerClean of its ParsedLines: a speaker in
\* one spelling, in two spellings in either order, with and without another.
CastScripts ==
    {<< >>,
     <<<<"A","n","n">>>>,
     <<<<"A","N","N">>>>,
     <<<<"A","N","N">>, <<"A","n","n">>>>,
     <<<<"A","n","n">>, <<"A","N","N">>, <<"a","n","n">>>>,
     <<<<"B","o","b">>>>,
     <<<<"B","o","b">>, <<"A","N","N">>>>}

\* The handlers run after the mount.
MaxCastSteps == 5

\* The voices a user picks, the values the pitch slider is set to, and the
\* suggestions of an auto-cast: for one name, a voice that is or is not one
\* of AVAILABLE_VOICES, and a pitch that is out of range or not a number.
PickedVoices == {"Kore"}

SliderPitches == {<<MinPitch>>, <<MaxPitch>>}

Mappings ==
    [key : {<<"a","n","n">>}, voice : {"Fenrir", "Nobody"}, pitch : {<<150>>, NaN}]

\* The component mounts: no Characters, and a storage that holds no registry.
CastInit ==
    /\ characters = << >>
    /\ castScript = << >>
    /\ voiceRegistry = << >>
    /\ dropped = {}
    /\ castPc = "mounted"
    /\ castSteps = 0
    /\ ParserIdle /\ CleanIdle /\ MetaIdle /\ GroupIdle /\ GenIdle
    /\ UtilIdle /\ RetryIdle /\ AppIdle

\* useEffect(() => { ... setCharacters(prev => ...) }, [script, setCharacters])
\* for a script whose ParsedLines have these speakerClean
Derive(speakers) ==
    LET r == DeriveCast(speakers, characters, voiceRegistry)
    IN  /\ castScript' = speakers
        /\ characters' = r.characters
        /\ voiceRegistry' = r.voiceRegistry
        /\ dropped' = Dropped(characters, r.characters, dropped)
        /\ castPc' = "derived"
        /\ castSteps' = castSteps + 1

ScriptChange ==
    /\ castPc \in {"mounted", "derived"}
    /\ castSteps < MaxCastSteps
    /\ \E speakers \in CastScripts : Derive(speakers)
    /\ UNCHANGED <<parserVars, cleanVars, metaVars, groupVars, genVars,
                 utilVars, retryVars, appVars>>

\* handleVoiceChange(id, newVoice)
handleVoiceChange ==
    /\ castPc = "derived"
    /\ castSteps < MaxCastSteps
    /\ \E i \in 1..Len(characters), newVoice \in PickedVoices :
          /\ voiceRegistry' = MapSet(voiceRegistry, characters[i].name,
                                     [voice |-> newVoice, pitch |-> characters[i].pitch])
          /\ characters' = [characters EXCEPT ![i].voice = newVoice]
    /\ castSteps' = castSteps + 1
    /\ UNCHANGED <<castScript, dropped, castPc>>
    /\ UNCHANGED <<parserVars, cleanVars, metaVars, groupVars, genVars,
                 utilVars, retryVars, appVars>>

\* handlePitchChange(id, newPitch)
handlePitchChange ==
    /\ castPc = "derived"
    /\ castSteps < MaxCastSteps
    /\ \E i \in 1..Len(characters), newPitch \in SliderPitches :
          /\ voiceRegistry' = MapSet(voiceRegistry, characters[i].name,
                                     [voice |-> characters[i].voice, pitch |-> newPitch])
          /\ characters' = [characters EXCEPT ![i].pitch = newPitch]
    /\ castSteps' = castSteps + 1
    /\ UNCHANGED <<castScript, dropped, castPc>>
    /\ UNCHANGED <<parserVars, cleanVars, metaVars, groupVars, genVars,
                 utilVars, retryVars, appVars>>

\* Math.max(0.8, Math.min(1.2, suggestion.pitch)): NaN of what is no number
Clamp(pitch) ==
    IF pitch = NaN THEN NaN
    ELSE <<Max({MinPitch, Min({MaxPitch, pitch[1]})})>>

\* let suggestion = mapping[char.name]; if (!suggestion) { the suggestion of
\* the key that equals char.name ignoring case }
Suggestion(mapping, name) ==
    IF ToLowerCase(mapping.key) = ToLowerCase(name) THEN <<mapping>> ELSE << >>

\* prev.map(char => { ... }) of handleAutoCast, from place i on
RECURSIVE AutoCastFrom(_, _, _, _)
AutoCastFrom(mapping, chars, registry, i) ==
    IF i > Len(chars) THEN [characters |-> chars, voiceRegistry |-> registry]
    ELSE LET suggestion == Suggestion(mapping, chars[i].name)
         IN  IF suggestion # << >>
                /\ \E v \in 1..Len(AVAILABLE_VOICES) :
                       AVAILABLE_VOICES[v] = suggestion[1].voice
             THEN LET newVoice == suggestion[1].voice
                      newPitch == Clamp(suggestion[1].pitch)
                  IN  AutoCastFrom(mapping,
                          [chars EXCEPT ![i].voice = newVoice, ![i].pitch = newPitch],
                          MapSet(registry, chars[i].name,
                                 [voice |-> newVoice, pitch |-> newPitch]),
                          i + 1)
             ELSE AutoCastFrom(mapping, chars, registry, i + 1)

\* handleAutoCast, once suggestCharacterMapping has resolved
handleAutoCast ==
    /\ castPc = "derived"
    /\ castSteps < MaxCastSteps
    /\ Len(characters) # 0
    /\ \E mapping \in Mappings :
          LET r == AutoCastFrom(mapping, characters, voiceRegistry, 1)
          IN  /\ characters' = r.characters
              /\ voiceRegistry' = r.voiceRegistry
    /\ castSteps' = castSteps + 1
    /\ UNCHANGED <<castScript, dropped, castPc>>
    /\ UNCHANGED <<parserVars, cleanVars, metaVars, groupVars, genVars,
                 utilVars, retryVars, appVars>>

\* handleClearRegistry: the registry is cleared, and the script is set to
\* itself with a space and then to itself again, which derives the cast twice.
handleClearRegistry ==
    /\ castPc = "derived"
    /\ castSteps < MaxCastSteps
    /\ LET spaced == DeriveCast(castScript, characters, << >>)
           trimmed == DeriveCast(castScript, spaced.characters, spaced.voiceRegistry)
       IN  /\ characters' = trimmed.characters
           /\ voiceRegistry' = trimmed.voiceRegistry
    /\ dropped' = {}
    /\ castSteps' = castSteps + 1
    /\ UNCHANGED <<castScript, castPc>>
    /\ UNCHANGED <<parserVars, cleanVars, metaVars, groupVars, genVars,
                 utilVars, retryVars, appVars>>

CastNext ==
    \/ ScriptChange \/ handleVoiceChange \/ handlePitchChange
    \/ handleAutoCast \/ handleClearRegistry

SpecCast == CastInit /\ [][CastNext]_vars

---------------------------------------------------------------------------
(* The cast derivation on scripts of many speakers.                        *)

\* The speakers in the order the longest script names them, the first one
\* named again in capitals at its end.
AllSpeakers ==
    <<<<"A","n","n">>, <<"B","o","b">>, <<"C","y">>, <<"D","i">>, <<"E","d">>, <<"F","l","o">>, <<"G","u","s">>, <<"A","N","N">>>>

\* The scripts: every run of consecutive speakers, and the empty script.
VoiceScripts ==
    {SubSeq(AllSpeakers, a, b) : a \in 1..Len(AllSpeakers), b \in 0..Len(AllSpeakers)}

\* The script changes after the mount.
MaxVoiceSteps == 2

VoiceScriptChange ==
    /\ castPc \in {"mounted", "derived"}
    /\ castSteps < MaxVoiceSteps
    /\ \E speakers \in VoiceScripts : Derive(speakers)
    /\ UNCHANGED <<parserVars, cleanVars, metaVars, groupVars, genVars,
                 utilVars, retryVars, appVars>>

VoiceNext == VoiceScriptChange

SpecVoices == CastInit /\ [][VoiceNext]_vars

---------------------------------------------------------------------------
(* The audio utilities, each called on the buffers of a bounded set.       *)

\* The frames of the buffers that are exported: the header is 44 bytes long.
MaxFrames == 46

\* The samples of an exported buffer: out of range on both sides, -1.0,
\* next to -0.5, -0.5, next to 0 on both sides, 0, 0.5 and 1.0.
WavSamples == <<-49152, -32768, -16385, -16384, -1, 0, 1, 16384, 32768, 49152>>

WavBuffer(numberOfChannels, length, shift) ==
    [numberOfChannels |-> numberOfChannels,
     sampleRate |-> ProviderRate,
     channelData |->
         [c \in 1..numberOfChannels |->
             [j \in 1..length |->
                 WavSamples[((j + 3 * c + shift) % Len(WavSamples)) + 1]]]]

WavBuffers ==
    {WavBuffer(c, n, s) : c \in {1, 2}, n \in 1..MaxFrames, s \in {0, 5}}

\* The call returns: none of the utilities has a throw statement.
UtilReturned ==
    /\ uPc = "call"
    /\ uPc' = "returned"
    /\ UNCHANGED uIn
    /\ UNCHANGED <<parserVars, cleanVars, metaVars, groupVars, genVars, castVars,
                   retryVars, appVars>>

\* handleDownload: audioBufferToWav(speechBuffer) is about to be called
WavInit ==
    /\ uIn \in {<<buffer>> : buffer \in WavBuffers}
    /\ uOut = << >>
    /\ uPc = "call"
    /\ ParserIdle /\ CleanIdle /\ MetaIdle /\ GroupIdle /\ GenIdle /\ CastIdle
    /\ RetryIdle /\ AppIdle

\* const blob = audioBufferToWav(speechBuffer);
WavCall ==
    /\ uOut' = <<audioBufferToWav(uIn[1])>>
    /\ UtilReturned

SpecWav == WavInit /\ [][WavCall]_vars

\* The buffers that are concatenated: of one and of two channels, of one
\* and of two frames, at the provider's rate and at another.
MaxBuffers == 3

ConcatBuffers ==
    {[numberOfChannels |-> 1, sampleRate |-> ProviderRate,
      channelData |-> <<<<1>>>>],
     [numberOfChannels |-> 1, sampleRate |-> ProviderRate,
      channelData |-> <<<<2, 3>>>>],
     [numberOfChannels |-> 2, sampleRate |-> ProviderRate,
      channelData |-> <<<<4>>, <<5>>>>],
     [numberOfChannels |-> 1, sampleRate |-> ContextRate,
      channelData |-> <<<<6, 7>>>>]}

ConcatInit ==
    /\ uIn \in UNION {[1..n -> ConcatBuffers] : n \in 0..MaxBuffers}
    /\ uOut = << >>
    /\ uPc = "call"
    /\ ParserIdle /\ CleanIdle /\ MetaIdle /\ GroupIdle /\ GenIdle /\ CastIdle
    /\ RetryIdle /\ AppIdle

\* const combinedBuffer = concatenateAudioBuffers(processedBuffers, ...);
ConcatCall ==
    /\ uOut' = <<concatenateAudioBuffers(uIn)>>
    /\ UtilReturned

SpecConcat == ConcatInit /\ [][ConcatCall]_vars

\* The buffers that are resampled: short ones, and the one of 4800 frames;
\* the rates are the steps of the pitch slider, 0.8 to 1.2 by 0.05.
MaxResampleFrames == 6

ScenarioFrames == 4800

PitchStep == 5

ResampleRates ==
    {MinPitch + PitchStep * k : k \in 0..((MaxPitch - MinPitch) \div PitchStep)}

ResampleBuffers ==
    {[numberOfChannels |-> c, sampleRate |-> ProviderRate,
      channelData |-> [d \in 1..c |-> [j \in 1..n |-> 100 * ((j * d) % 7)]]] :
        c \in {1, 2}, n \in (1..MaxResampleFrames) \cup {ScenarioFrames}}

ResampleInit ==
    /\ uIn \in ResampleBuffers \X ResampleRates
    /\ uOut = << >>
    /\ uPc = "call"
    /\ ParserIdle /\ CleanIdle /\ MetaIdle /\ GroupIdle /\ GenIdle /\ CastIdle
    /\ RetryIdle /\ AppIdle

\* const finalBuffer = resampleBuffer(buffer, pitch, audioContextRef.current!);
ResampleCall ==
    /\ uOut' = <<resampleBuffer(uIn[1], uIn[2])>>
    /\ UtilReturned

SpecResample == ResampleInit /\ [][ResampleCall]_vars

---------------------------------------------------------------------------
(* callWithRetry, the wrapper of the single requests.                      *)

\* maxRetries = 5
DefaultMaxRetries == 5

\* 3000 * Math.pow(2, retries - 1)
RetryBase == 3000

\* The maxRetries a call is given, up to the default that every caller of
\* the repository leaves in place.
RetryLimits == 0..DefaultMaxRetries

\* The messages of the errors apiCall rejects with.
ErrorMessages ==
    {<<"4","2","9">>, <<"Q","u","o","t","a">>, <<"E","X","H","A","U","S","T","E","D">>, <<"o","v","e","r","l","o","a","d","e","d">>, <<"5","0","3">>, <<"f","e","t","c","h">>}

\* msg.includes('429') || msg.includes('quota') || msg.includes('exhausted')
\* || msg.includes('overloaded'), of the lower-cased message
IsQuotaError(message) ==
    LET msg == ToLowerCase(message)
    IN  \/ Includes(msg, <<"4","2","9">>)
        \/ Includes(msg, <<"q","u","o","t","a">>)
        \/ Includes(msg, <<"e","x","h","a","u","s","t","e","d">>)
        \/ Includes(msg, <<"o","v","e","r","l","o","a","d","e","d">>)

\* let retries = 0;
RetryInit ==
    /\ cwMaxRetries \in RetryLimits
    /\ cwRetries = 0
    /\ cwCalls = 0
    /\ cwWaits = << >>
    /\ cwError = << >>
    /\ cwPc = "loop"
    /\ ParserIdle /\ CleanIdle /\ MetaIdle /\ GroupIdle /\ GenIdle /\ CastIdle
    /\ UtilIdle /\ AppIdle

\* while (retries < maxRetries) { try { return await apiCall(); ...
RetryCall ==
    /\ cwPc = "loop"
    /\ cwRetries < cwMaxRetries
    /\ cwCalls' = cwCalls + 1
    /\ cwPc' = "awaiting"
    /\ UNCHANGED <<cwMaxRetries, cwRetries, cwWaits, cwError>>
    /\ UNCHANGED <<parserVars, cleanVars, metaVars, groupVars, genVars, castVars,
                   utilVars, appVars>>

\* apiCall() resolves: return
RetryResolved ==
    /\ cwPc = "awaiting"
    /\ cwPc' = "returned"
    /\ UNCHANGED <<cwMaxRetries, cwRetries, cwCalls, cwWaits, cwError>>
    /\ UNCHANGED <<parserVars, cleanVars, metaVars, groupVars, genVars, castVars,
                   utilVars, appVars>>

\* catch (error) { ...; retries++; if (retries >= maxRetries) throw error;
\* const waitTime = 3000 * Math.pow(2, retries - 1); await delay(waitTime); continue;
CountAndWait(message) ==
    /\ cwError' = <<message>>
    /\ cwRetries' = cwRetries + 1
    /\ IF cwRetries' >= cwMaxRetries
       THEN /\ cwPc' = "threw"
            /\ cwWaits' = cwWaits
       ELSE /\ cwWaits' = Append(cwWaits, RetryBase * 2 ^ (cwRetries' - 1))
            /\ cwPc' = "loop"

\* apiCall() rejects with a message that names a rate limit
RetryQuota ==
    /\ cwPc = "awaiting"
    /\ \E message \in ErrorMessages :
          /\ IsQuotaError(message)
          /\ CountAndWait(message)
    /\ UNCHANGED <<cwMaxRetries, cwCalls>>
    /\ UNCHANGED <<parserVars, cleanVars, metaVars, groupVars, genVars, castVars,
                   utilVars, appVars>>

\* apiCall() rejects with another message: throw error;
RetryFatal ==
    /\ cwPc = "awaiting"
    /\ \E message \in ErrorMessages :
          /\ ~IsQuotaError(message)
          /\ cwError' = <<message>>
    /\ cwPc' = "threw"
    /\ UNCHANGED <<cwMaxRetries, cwRetries, cwCalls, cwWaits>>
    /\ UNCHANGED <<parserVars, cleanVars, metaVars, groupVars, genVars, castVars,
                   utilVars, appVars>>

\* The loop is left: throw new Error(`${operationName} failed after max retries.`);
RetryAfterLoop ==
    /\ cwPc = "loop"
    /\ cwRetries >= cwMaxRetries
    /\ cwError' = <<<<"f","a","i","l","e","d"," ","a","f","t","e","r"," ","m","a","x"," ","r","e","t","r","i","e","s",".">>>>
    /\ cwPc' = "threw"
    /\ UNCHANGED <<cwMaxRetries, cwRetries, cwCalls, cwWaits>>
    /\ UNCHANGED <<parserVars, cleanVars, metaVars, groupVars, genVars, castVars,
                   utilVars, appVars>>

RetryNext ==
    RetryCall \/ RetryResolved \/ RetryQuota \/ RetryFatal \/ RetryAfterLoop

SpecRetry == RetryInit /\ [][RetryNext]_vars

---------------------------------------------------------------------------
(* The script panel and generateDramaAudio on one script: the cast that    *)
(* handleGenerateAudio passes is the one the panel derived.                *)

\* The lines of the scripts, a speaker in two spellings and another one,
\* and a line whose dialogue is all parentheses.
MaxPipeLines == 2

PipeLines ==
    [speakerClean : {<<"A","N","N">>, <<"A","n","n">>, <<"B","o","b">>}, dialogue : {<<"a">>}]
        \cup {[speakerClean |-> <<"A","n","n">>, dialogue |-> <<"(","x",")">>]}

\* line.speakerClean of each of the ParsedLines
SpeakersOf(lines) == [k \in 1..Len(lines) |-> lines[k].speakerClean]

\* The cast the panel holds after it derived it from the script of before
\* and then from a script.
CastAfter(before, speakers) ==
    LET first == DeriveCast(before, << >>, << >>)
    IN  DeriveCast(speakers, first.characters, first.voiceRegistry)

\* generateDramaAudio(script, characters, ...) is called with the cast the
\* panel derived from the script, or from a script edited since.
PipeInit ==
    /\ rawLines \in UNION {[1..n -> PipeLines] : n \in 0..MaxPipeLines}
    /\ castScript \in {SpeakersOf(rawLines), <<<<"B","o","b">>>>, <<<<"A","n","n">>>>}
    /\ \E before \in {<< >>, <<<<"A","N","N">>>>} :
          /\ characters = CastAfter(before, castScript).characters
          /\ voiceRegistry = CastAfter(before, castScript).voiceRegistry
    /\ dropped = {}
    /\ castPc = "derived"
    /\ castSteps = 0
    /\ gI = 0
    /\ currentSegment = << >>
    /\ segments = << >>
    /\ gPc = "start"
    /\ ParserIdle /\ CleanIdle /\ MetaIdle /\ GenIdle
    /\ UtilIdle /\ RetryIdle /\ AppRunning

SpecPipe == PipeInit /\ [][GenNext]_vars

---------------------------------------------------------------------------
(* Properties of the line segmenter                                        *)

\* The k-th smallest member of a set of numbers.
Nth(S, k) == CHOOSE i \in S : Cardinality({j \in S : j < i}) = k - 1

\* The positions, in the lines consumed, of the accepted speaker cues.
CueIndices(lines) == {i \in 1..Len(lines) : Classified(lines[i]).kind = "cue"}

\* The ParsedLines the loop holds: those emitted, then the active one.
HeldLines == parsedLines \o (IF pPc = "loop" THEN currentSpeaker ELSE << >>)

\* The last line the loop consumed, in a state reached by ReadLine.
LastLine == script[Len(script)]

\* A step of the loop over one line.
LineStep == pPc = "loop" /\ pPc' = "loop" /\ Len(script') = Len(script) + 1

\* C1: every script is parsed to exactly one ParsedLine per accepted cue,
\* the k-th ParsedLine coming from the k-th accepted cue line, and every
\* ParsedLine has a non-empty speakerClean that isMetadataLine does not
\* hold of.  While the loop runs the active ParsedLine is the one still to
\* be emitted.
C1_OneLinePerCue ==
    /\ Len(HeldLines) = Cardinality(CueIndices(script))
    /\ \A k \in 1..Len(HeldLines) :
          /\ HeldLines[k].original = script[Nth(CueIndices(script), k)]
          /\ HeldLines[k].speakerClean # << >>
          /\ ~isMetadataLine(HeldLines[k].speakerClean)
    /\ pPc = "returned" => Len(parsedLines) = Cardinality(CueIndices(script))

C1_Witness ==
    /\ pPc = "returned"
    /\ Len(script) = 3
    /\ Len(parsedLines) = 2
    /\ Classified(script[2]).kind # "cue"

\* C2: parsing the single line speakerClean + ": " + dialogue of a ParsedLine
\* yields a ParsedLine with the same speakerClean.
Reparsed(p) == parseScriptContent(<<p.speakerClean \o <<":"," ">> \o p.dialogue>>)

C2_ReparseKeepsSpeaker ==
    pPc = "returned" =>
        \A k \in 1..Len(parsedLines) :
            /\ Len(Reparsed(parsedLines[k])) = 1
            /\ Reparsed(parsedLines[k])[1].speakerClean = parsedLines[k].speakerClean

\* The lines a rejection of the dash gate ends the loop body for.
DashRejections ==
    {"gate_indent", "gate_lower", "gate_digit", "gate_starter", "gate_words",
     "gate_dialogue", "gate_bio", "gate_act", "gate_caps"}

\* The active ParsedLine with the trimmed line appended to its dialogue.
Continued(current, line) ==
    <<[current[1] EXCEPT !.dialogue = AppendDialogue(current[1].dialogue, Trim(line))]>>

\* C3: a dash-matched line the gate rejects is handled as a continuation:
\* with a ParsedLine active and no skip filter applying, its trimmed text is
\* appended to the active dialogue.
C3_DashRejectContinues ==
    [][(/\ LineStep
        /\ Classified(LastLine').kind \in DashRejections
        /\ currentSpeaker # << >>
        /\ ContinuationFilter(Trim(LastLine')) = "append")
       => currentSpeaker' = Continued(currentSpeaker, LastLine')]_vars

\* The lines rejected for a markdown marker or for a digit or '#' in the
\* label of a colon match.
MarkerRejections == {"markdown", "colon_digit"}

\* C4, as claimed: a line whose label starts with '*' or '#', and a colon
\* match with a digit or '#' in its label, is handled as a continuation.
C4_MarkerRejectContinues ==
    [][(/\ LineStep
        /\ Classified(LastLine').kind \in MarkerRejections
        /\ currentSpeaker # << >>
        /\ ContinuationFilter(Trim(LastLine')) = "append")
       => currentSpeaker' = Continued(currentSpeaker, LastLine')]_vars

\* C4, amended: such a line is rejected as a cue and skipped altogether: it
\* is no continuation either, and leaves the emitted ParsedLines and the
\* active ParsedLine, its dialogue included, as they were.
C4_MarkerRejectSkips ==
    [][(LineStep /\ Classified(LastLine').kind \in MarkerRejections)
       => UNCHANGED <<parsedLines, currentSpeaker>>]_vars

C4_Witness ==
    /\ pPc = "loop"
    /\ script # << >>
    /\ outcome \in MarkerRejections
    /\ currentSpeaker # << >>
    /\ ContinuationFilter(Trim(LastLine)) = "append"

\* The lines from the k-th accepted cue up to the next accepted cue.
Block(lines, k) ==
    LET cues == CueIndices(lines)
        first == Nth(cues, k)
        last == IF k < Cardinality(cues) THEN Nth(cues, k + 1) - 1 ELSE Len(lines)
    IN  SubSeq(lines, first, last)

\* C5, the state part: every ParsedLine is the one its own block of lines
\* (its cue line and the lines up to the next accepted cue) parses to, so
\* its dialogue is made, in order, of text of those lines alone; before the
\* first accepted cue there is no ParsedLine.
C5_OwnBlockOnly ==
    /\ \A k \in 1..Len(HeldLines) :
          parseScriptContent(Block(script, k)) = <<HeldLines[k]>>
    /\ CueIndices(script) = {} => parsedLines = << >> /\ currentSpeaker = << >>

\* C5, the step part: an emitted ParsedLine is never changed or removed.
C5_EmittedUnchanged ==
    \A k \in 1..Len(parsedLines) :
        Len(parsedLines') >= k /\ parsedLines'[k] = parsedLines[k]

\* C5: a ParsedLine is immutable once emitted, and its dialogue holds text of
\* the lines between its cue and the next accepted cue only, in input order.
C5_Immutable == []C5_OwnBlockOnly /\ [][C5_EmittedUnchanged]_vars

C5_Witness ==
    /\ pPc = "loop"
    /\ Len(script) = 3
    /\ Classified(script[1]).kind = "cue"
    /\ Classified(script[2]).kind = "cue"
    /\ outcome = "append"

NotBlank(line) == Trim(line) # << >>

\* speakerClean, metadata and dialogue of each ParsedLine
Fields(lines) ==
    [k \in 1..Len(lines) |->
        [speakerClean |-> lines[k].speakerClean,
         metadata |-> lines[k].metadata,
         dialogue |-> lines[k].dialogue]]

\* C6: blank lines do not affect the segmenter: a script and the script
\* without its blank lines leave the loop in the same state and are parsed
\* to the same (speakerClean, metadata, dialogue) records.
C6_BlankLinesIgnored ==
    LET bare == SelectSeq(script, NotBlank)
        r == RunLoop(bare, << >>, << >>)
    IN  /\ pPc = "loop" =>
              /\ Fields(parsedLines) = Fields(r.parsedLines)
              /\ Fields(currentSpeaker) = Fields(r.currentSpeaker)
        /\ pPc = "returned" =>
              Fields(parsedLines) = Fields(parseScriptContent(bare))

C6_Witness ==
    /\ pPc = "returned"
    /\ Len(script) = 3
    /\ Classified(script[1]).kind = "cue"
    /\ ~NotBlank(script[2])
    /\ Classified(script[3]).kind = "continuation"
    /\ ContinuationFilter(Trim(script[3])) = "append"
    /\ Len(parsedLines) = 1

---------------------------------------------------------------------------
(* Properties of cleanSpeakerName and isMetadataLine                       *)

\* The text before the first whitespace-hyphen-whitespace separator of s,
\* wherever the separator starts; s when it has none.
BeforeFirstSeparator(s) ==
    IF SeparatorMatch(s) # << >> THEN SubSeq(s, 1, SeparatorMatch(s)[1]) ELSE s

\* C7: cleanSpeakerName cuts the text left by the removal of the
\* parentheticals at its first whitespace-surrounded hyphen, also when that
\* separator starts the text, so the name returned holds nothing that
\* followed the separator.
C7_TruncatesAtFirstSeparator ==
    /\ cPc = "symbols" => cName = BeforeFirstSeparator(RemoveParens(cRaw))
    /\ cPc = "returned" =>
          cName = Trim(StripSymbols(BeforeFirstSeparator(RemoveParens(cRaw))))

\* The whitespace-separated words of a name.
SpaceWords(lower) == Split(lower, WhiteSpace)

\* The rules of isMetadataLine other than the length heuristic.
OtherRules(lower) ==
    \/ PrefixRule(lower)
    \/ ContainsRule(lower)
    \/ RegexRule(lower)
    \/ CueRule(lower)
    \/ AlphaEmptyRule(lower)

\* C8: a name no other rule matches is metadata exactly when it has more
\* than 4 whitespace-separated words; a hyphen inside a word adds no word.
C8_LengthCountsSpaceWords ==
    LET lower == Trim(ToLowerCase(mName))
    IN  (mPc = "returned" /\ ~OtherRules(lower)) =>
            (mResult <=> Len(SpaceWords(lower)) > MaxNameWords)

---------------------------------------------------------------------------
(* Properties of the segment grouper                                       *)

\* The positions where a maximal run of lines of one speaker starts.
RunStarts(lines) ==
    {i \in 1..Len(lines) : i = 1 \/ lines[i].speakerClean # lines[i - 1].speakerClean}

\* The k-th maximal run of lines of one speaker.
RunOf(lines, k) ==
    LET starts == RunStarts(lines)
        first == Nth(starts, k)
        last == IF k < Cardinality(starts) THEN Nth(starts, k + 1) - 1 ELSE Len(lines)
    IN  SubSeq(lines, first, last)

DialoguesOf(run) == [i \in 1..Len(run) |-> run[i].dialogue]

\* C9: no two adjacent segments have the same speaker, the segments are the
\* maximal runs of lines of exactly the same speakerClean, in order, and the
\* text of a segment is the dialogues of its run joined by single spaces.
C9_SegmentsAreRuns ==
    gPc = "grouped" =>
        /\ \A j \in 1..(Len(segments) - 1) :
              segments[j].speaker # segments[j + 1].speaker
        /\ Len(segments) = Cardinality(RunStarts(rawLines))
        /\ \A k \in 1..Len(segments) :
              /\ segments[k].speaker = RunOf(rawLines, k)[1].speakerClean
              /\ segments[k].text = Join(DialoguesOf(RunOf(rawLines, k)), <<" ">>)

C9_Witness ==
    /\ gPc = "grouped"
    /\ Len(rawLines) = 3
    /\ rawLines[1].speakerClean = rawLines[2].speakerClean
    /\ rawLines[2].speakerClean # rawLines[3].speakerClean
    /\ ToLowerCase(rawLines[2].speakerClean) = ToLowerCase(rawLines[3].speakerClean)
    /\ rawLines[1].dialogue # rawLines[2].dialogue
    /\ Len(segments) = 2

NoRepeatedSpeaker(lines) ==
    \A i \in 1..(Len(lines) - 1) : lines[i].speakerClean # lines[i + 1].speakerClean

\* C10: there are at most as many segments as ParsedLines, as many exactly
\* when no two consecutive ParsedLines have the same speakerClean, and none
\* for no ParsedLine.
C10_SegmentCount ==
    gPc \in {"grouped", "returned"} =>
        /\ Len(segments) <= Len(rawLines)
        /\ Len(segments) = Len(rawLines) <=> NoRepeatedSpeaker(rawLines)
        /\ rawLines = << >> => segments = << >>

C10_Witness ==
    /\ gPc = "grouped"
    /\ Len(rawLines) = 3
    /\ Len(segments) = 3
    /\ ToLowerCase(rawLines[1].speakerClean) = ToLowerCase(rawLines[2].speakerClean)

---------------------------------------------------------------------------
(* The generation run                                                      *)

\* The segments of the run whose speaker has no casting entry.
UnassignedSegments ==
    {k \in 1..Len(segments) :
        \A c \in 1..Len(characters) :
            ToLowerCase(characters[c].name) # ToLowerCase(segments[k].speaker)}

\* The run is over: generateDramaAudio returned or threw.
RunEnded == sPc \in {"returned", "threw", "done"}

\* C11: a run whose segments include a speaker with no casting entry makes no
\* synthesis request, and ends with an error that names such a speaker.
C11_UnassignedFailsFast ==
    (gPc = "grouped" /\ UnassignedSegments # {})
        => /\ requestCount = 0
           /\ RunEnded =>
                 /\ error # << >>
                 /\ error[1].kind = "unassigned"
                 /\ \E k \in UnassignedSegments : error[1].speaker = segments[k].speaker

\* The retry budget of the segment at hand was used up by rate limits.
BudgetExhausted == retries >= MAX_RETRIES /\ ~success

\* C12, the state: once the budget of a segment is used up, the run has ended
\* in the rate-limit error, nothing was returned and no buffer was assembled.
C12_EndsInError ==
    (BudgetExhausted /\ sPc # "attempt")
        => /\ sPc \in {"threw", "done"}
           /\ error = <<[kind |-> "ratelimit", speaker |-> segments[sI + 1].speaker]>>
           /\ speechBuffer = << >>

\* C12, the step: once the budget is used up no request is made and the loop
\* moves to no later segment.
C12_NoLaterRequest ==
    BudgetExhausted => (requestCount' = requestCount /\ sI' = sI)

\* C12: a segment rate-limited on every attempt ends the whole run in an
\* error; no later segment is requested, and the audio of the earlier
\* segments is neither returned nor assembled.
C12_RateLimitAborts == []C12_EndsInError /\ [][C12_NoLaterRequest]_vars

\* A run that ended on the second of three segments, the first one synthesized.
C12_Witness ==
    /\ sPc = "done"
    /\ BudgetExhausted
    /\ Len(audioResults) > 0
    /\ sI + 1 < Len(segments)

\* The samples of the buffer that segment i was synthesized into.
SamplesOf(buffer, i) ==
    {p \in 1..Length(buffer) : buffer.channelData[1][p] = i + 1}

\* The samples the audio of a result decodes and resamples to.
ResampledLength(result) ==
    LET rate == PitchOf(characters, result.speaker)
    IN  IF rate = 100 THEN result.audio.frames
        ELSE RoundDiv(100 * result.audio.frames, rate)

\* C13: the buffer holds, for every segment that produced audio, the samples
\* its audio decodes and resamples to, and the samples of a segment come
\* before the samples of every later segment.
C13_BufferInSegmentOrder ==
    speechBuffer # << >> =>
        LET buffer == speechBuffer[1]
            samples == buffer.channelData[1]
        IN  /\ \A p, q \in 1..Len(samples) : p < q => samples[p] <= samples[q]
            /\ \A k \in 1..Len(audioResults) :
                  Cardinality(SamplesOf(buffer, audioResults[k].audio.of))
                      = ResampledLength(audioResults[k])
            /\ \A p \in 1..Len(samples) :
                  \E k \in 1..Len(audioResults) :
                      audioResults[k].audio.of + 1 = samples[p]

\* A buffer of the first and the third segment, the second one skipped for
\* its empty text and a request retried.
C13_Witness ==
    /\ speechBuffer # << >>
    /\ SamplesOf(speechBuffer[1], 0) # {}
    /\ SamplesOf(speechBuffer[1], 2) # {}
    /\ SamplesOf(speechBuffer[1], 1) = {}
    /\ requestCount > 2

\* C14, the step: a request is made only when no request is outstanding.
C14_RequestAfterSettled == requestCount' # requestCount => outstanding = 0

\* C14: at most one synthesis request is outstanding at any time, and a
\* request is made only after the one before it has settled.
C14_Sequential == [](outstanding <= 1) /\ [][C14_RequestAfterSettled]_vars

\* The request of a later segment is outstanding, after a retry.
C14_Witness ==
    /\ outstanding = 1
    /\ sI >= 1
    /\ retries >= 1
    /\ requestCount >= 3

\* A rate-limit error has been seen: at a request every call before it has
\* settled, with audio or with a rate-limit error.
EverLimited == requestCount > Len(audioResults)

\* C15, the delay between two requests.
C15_DelayBeforeRequest ==
    (requestCount' = requestCount + 1 /\ requestCount > 0)
        => waited = IF lastOutcome = "success"
                    THEN (IF EverLimited THEN 15000 ELSE 6000)
                    ELSE 10000 * retries

\* C15: between two consecutive requests the inter-segment delay (6000 ms,
\* 15000 ms once a rate-limit error was seen) or the backoff of 10000 ms times
\* the retry count elapses, and the inter-segment delay never decreases.
C15_DelaysBetweenRequests ==
    [][C15_DelayBeforeRequest /\ currentDelay' >= currentDelay]_vars

\* A request made after a success, in a run that has seen a rate limit.
C15_Witness ==
    /\ sPc = "awaiting"
    /\ lastOutcome = "success"
    /\ currentDelay = 15000
    /\ waited = 0
    /\ sI >= 1

---------------------------------------------------------------------------
(* The cast                                                                *)

\* Two names are the same name ignoring case.
SameName(a, b) == ToLowerCase(a) = ToLowerCase(b)

AllCaps(name) == name = ToUpperCase(name)

\* The spellings of a name in the script.
Spellings(name) ==
    {castScript[i] : i \in {j \in 1..Len(castScript) : SameName(castScript[j], name)}}

\* C16: after a derivation the Characters are the speakers of the script, no
\* two of them have the same name ignoring case, and a speaker the script
\* spells both in capitals and otherwise is displayed by a spelling of the
\* script that is not in capitals.
C16_UniqueNamesPreferMixedCase ==
    castPc = "derived" =>
        /\ \A i, j \in 1..Len(characters) :
              i # j => ~SameName(characters[i].name, characters[j].name)
        /\ \A i \in 1..Len(characters) : Spellings(characters[i].name) # {}
        /\ \A s \in 1..Len(castScript) :
              \E i \in 1..Len(characters) : SameName(characters[i].name, castScript[s])
        /\ \A i \in 1..Len(characters) :
              LET spellings == Spellings(characters[i].name)
              IN  /\ characters[i].name \in spellings
                  /\ (\E a, b \in spellings : AllCaps(a) /\ ~AllCaps(b))
                        => ~AllCaps(characters[i].name)

\* A script that spells a speaker in capitals first and in mixed case later.
C16_Witness ==
    /\ castPc = "derived"
    /\ Len(castScript) >= 2
    /\ AllCaps(castScript[1])
    /\ \E s \in 2..Len(castScript) :
          SameName(castScript[s], castScript[1]) /\ ~AllCaps(castScript[s])
    /\ \E i \in 1..Len(characters) : characters[i].name = castScript[2]

\* C17, the step: the Characters whose name is still a speaker keep their
\* voice and pitch.
C17_KeptAsBefore ==
    \A i \in 1..Len(characters), j \in 1..Len(characters') :
        SameName(characters[i].name, characters'[j].name)
            => /\ characters'[j].voice = characters[i].voice
               /\ characters'[j].pitch = characters[i].pitch

\* C17: a script change leaves every Character whose name, ignoring case, is
\* still a speaker with the voice and pitch it had before the change.
C17_ScriptChangePreserves == [][ScriptChange => C17_KeptAsBefore]_vars

\* C18, the step: a Character made for a speaker that was dropped has the
\* voice and pitch of the dropped Character.
C18_RecreatedAsDropped ==
    \A d \in dropped : \A j \in 1..Len(characters') :
        SameName(d.name, characters'[j].name)
            => /\ characters'[j].voice = d.voice
               /\ characters'[j].pitch = d.pitch

\* C18: a speaker that left the script and comes back, under any casing and
\* with no registry clear since it left, gets a Character of the voice and
\* pitch its Character had when it was dropped.
C18_DroppedIsRecoverable == [][ScriptChange => C18_RecreatedAsDropped]_vars

\* The places of the script where a speaker appears first that has neither
\* a Character nor a registry entry before the derivation.
Unmatched ==
    {i \in 1..Len(castScript') :
        /\ \A j \in 1..(i - 1) : ~SameName(castScript'[j], castScript'[i])
        /\ \A c \in 1..Len(characters) : ~SameName(characters[c].name, castScript'[i])
        /\ \A e \in 1..Len(voiceRegistry) : ~SameName(voiceRegistry[e].key, castScript'[i])}

\* C19, the step: the k-th unmatched speaker gets AVAILABLE_VOICES[k mod 5]
\* and pitch 1.0.
C19_KthVoice ==
    \A i \in Unmatched :
        LET k == Cardinality({j \in Unmatched : j < i})
        IN  \E c \in 1..Len(characters') :
                /\ SameName(characters'[c].name, castScript'[i])
                /\ characters'[c].voice = AVAILABLE_VOICES[(k % 5) + 1]
                /\ characters'[c].pitch = <<100>>

\* C19: in a derivation the k-th speaker, in order of first appearance, that
\* has neither a previous Character nor a registry entry gets the voice
\* AVAILABLE_VOICES[k mod 5] and the pitch 1.0.
C19_RoundRobinDefaults == [][castSteps' # castSteps => C19_KthVoice]_vars

\* A derivation of seven speakers, six of them unmatched: the sixth gets the
\* first voice again.
C19_Witness ==
    /\ castSteps = 2
    /\ Len(characters) = 7
    /\ Len(voiceRegistry) = 7
    /\ characters[5].voice = "Zephyr"
    /\ characters[6].voice = "Puck"
    /\ characters[7].voice = "Puck"

\* C20: every Character's pitch is a number of [0.8, 1.2], and so is the rate
\* the assembly hands to the resampler for it.
C20_PitchInRange ==
    \A i \in 1..Len(characters) :
        /\ characters[i].pitch # NaN
        /\ characters[i].pitch[1] >= 80 /\ characters[i].pitch[1] <= 120
        /\ PitchOf(characters, characters[i].name) \in 80..120

---------------------------------------------------------------------------
(* The claims on the audio utilities.                                      *)

\* The 16-bit little-endian value at a byte offset of the bytes of a Blob.
Int16At(bytes, offset) ==
    LET unsigned == bytes[offset + 1] + 256 * bytes[offset + 2]
    IN  IF unsigned >= 32768 THEN unsigned - 65536 ELSE unsigned

\* C21: the Blob of a buffer of C channels and N frames has 44 + 2*N*C
\* bytes, and for every frame j and channel c the 16-bit value at offset
\* 44 + 2*(j*C + c) is the value sample j of channel c converts to: no frame
\* is skipped and no slot is left unwritten.
C21_EveryFrameInItsSlot ==
    uPc = "returned" =>
        LET buffer == uIn[1]
            bytes == uOut[1]
            C == buffer.numberOfChannels
            N == Length(buffer)
        IN  /\ Len(bytes) = 44 + 2 * N * C
            /\ \A j \in 0..(N - 1), c \in 0..(C - 1) :
                  Int16At(bytes, 44 + 2 * (j * C + c))
                      = ScaleSample(ClampSample(buffer.channelData[c + 1][j + 1]))

\* The conversion of a clamped sample: times 32768 when it is negative, times
\* 32767 when it is not, the fraction dropped.
Converted(sample) ==
    IF sample < 0 THEN Trunc(sample * 32768, SampleUnit)
    ELSE Trunc(sample * 32767, SampleUnit)

\* C22: every sample that is written is clamped to [-1, 1] and then
\* converted, times 32768 when negative and times 32767 when not, truncated
\* toward zero; the loop writes frame pos, from 44 on, at slot pos - 44.
C22_WrittenSamplesConverted ==
    uPc = "returned" =>
        LET buffer == uIn[1]
            bytes == uOut[1]
            C == buffer.numberOfChannels
        IN  \A pos \in 44..(Length(buffer) - 1), c \in 0..(C - 1) :
                Int16At(bytes, 44 + 2 * ((pos - 44) * C + c))
                    = Converted(ClampSample(buffer.channelData[c + 1][pos + 1]))

\* The sample the buffers before buffer k of a list end at.
OffsetOf(buffers, k) == TotalLength(SubSeq(buffers, 1, k - 1))

\* C23: the concatenation of a non-empty list is as long as its buffers
\* together, and buffer k occupies the samples from the sum of the lengths
\* of the buffers before it: sample j of buffer k is at that offset plus j,
\* in every channel of the result that the buffer has, and in every channel
\* when the buffer is mono.
C23_EachBufferAtItsOffset ==
    (uPc = "returned" /\ Len(uIn) > 0) =>
        LET result == uOut[1]
        IN  /\ Length(result) = TotalLength(uIn)
            /\ \A c \in 1..result.numberOfChannels :
                  Len(result.channelData[c]) = TotalLength(uIn)
            /\ \A k \in 1..Len(uIn), c \in 1..result.numberOfChannels :
                  \A j \in 1..Length(uIn[k]) :
                      /\ c <= uIn[k].numberOfChannels =>
                            result.channelData[c][OffsetOf(uIn, k) + j]
                                = uIn[k].channelData[c][j]
                      /\ uIn[k].numberOfChannels = 1 =>
                            result.channelData[c][OffsetOf(uIn, k) + j]
                                = uIn[k].channelData[1][j]

\* Three buffers of one, two and one frames were concatenated: the second
\* starts at sample 1 and the third at sample 3.
C23_Witness ==
    /\ uPc = "returned"
    /\ Len(uIn) = 3
    /\ Length(uIn[1]) = 1 /\ Length(uIn[2]) = 2 /\ Length(uIn[3]) = 1
    /\ uOut[1].channelData[1] = <<1, 2, 3, 1>>

\* The buffers of the list do not share a sample rate.
RatesDiffer(buffers) ==
    \E k, l \in 1..Len(buffers) : buffers[k].sampleRate # buffers[l].sampleRate

\* C24: a call on buffers whose sample rates differ signals an error, and
\* returns no buffer.
C24_MismatchedRatesFail ==
    (uPc # "call" /\ RatesDiffer(uIn)) => (uPc = "threw" /\ uOut = << >>)

\* C25: the resampled buffer is round(len / rate) samples long, that is
\* within half a sample of len / rate, in every channel, and it has the
\* channel count and the sample rate of the buffer; 4800 samples give 6000
\* at rate 0.8 and 4000 at rate 1.2.
C25_ResampledLength ==
    uPc = "returned" =>
        LET buffer == uIn[1]
            rate == uIn[2]
            result == uOut[1]
            off == 2 * rate * Length(result) - 200 * Length(buffer)
        IN  /\ -rate < off /\ off <= rate
            /\ result.numberOfChannels = buffer.numberOfChannels
            /\ result.sampleRate = buffer.sampleRate
            /\ \A c \in 1..result.numberOfChannels :
                  Len(result.channelData[c]) = Length(result)
            /\ (Length(buffer) = 4800 /\ rate = 80) => Length(result) = 6000
            /\ (Length(buffer) = 4800 /\ rate = 120) => Length(result) = 4000

\* A buffer of 4800 samples was resampled at rate 0.8 to 6000 samples.
C25_Witness ==
    /\ uPc = "returned"
    /\ Length(uIn[1]) = 4800
    /\ uIn[2] = 80
    /\ Length(uOut[1]) = 6000

---------------------------------------------------------------------------
(* The claim on callWithRetry.                                             *)

\* C26: with the default maxRetries, an operation that keeps failing with a
\* rate-limit error is called again 5 times after its first call, after
\* waits of 3, 6, 12, 24 and 48 s, and the error is rethrown only then.
C26_FiveRetriesThenRethrow ==
    (/\ cwMaxRetries = DefaultMaxRetries
     /\ cwPc = "threw"
     /\ IsQuotaError(cwError[1]))
        => /\ cwCalls = 1 + 5
           /\ cwWaits = <<3000, 6000, 12000, 24000, 48000>>

---------------------------------------------------------------------------
(* The claims on the runs of handleGenerateAudio.                          *)

\* C27: when the cast that is passed was derived from the script that is
\* passed, every segment's speaker has a Character of that name, the case
\* of the letters put aside, and no segment raises the unassigned-voice
\* error.
C27_DerivedCastCoversSegments ==
    castScript = SpeakersOf(rawLines) =>
        /\ \A k \in 1..Len(segments) :
              \E i \in 1..Len(characters) :
                  ToLowerCase(characters[i].name) = ToLowerCase(segments[k].speaker)
        /\ \A k \in 1..Len(error) : error[k].kind # "unassigned"

\* A run on the script "ANN: a / Ann: a" returned the audio of both
\* segments, the first one's speaker spelled unlike its Character.
C27_Witness ==
    /\ castScript = SpeakersOf(rawLines)
    /\ sPc = "returned"
    /\ Len(segments) = 2
    /\ Len(audioResults) = 2
    /\ segments[1].speaker = <<"A","N","N">>
    /\ \A i \in 1..Len(characters) : characters[i].name # <<"A","N","N">>

\* C29, the step: the attempts of a segment begin with retries at 0.
C29_RetriesReset ==
    (sPc = "segment" /\ sPc' = "attempt") => retries' = 0

\* The run of generateDramaAudio is over: it returned, or it threw.
C29_Over == gPc = "returned" \/ sPc \in {"returned", "threw", "done"}

\* C29: when every call of the provider settles, generateDramaAudio ends,
\* by returning or by throwing; a segment is requested at most 10 times,
\* and the retries are counted from 0 for each segment.
C29_Terminates ==
    /\ [](segmentRequests <= MAX_RETRIES)
    /\ [][C29_RetriesReset]_vars
    /\ <>C29_Over

\* The run threw on its second segment after 10 requests for it, the first
\* segment synthesized after a retry.
C29_Witness ==
    /\ sPc = "threw"
    /\ sI = 1
    /\ segmentRequests = MAX_RETRIES
    /\ requestCount > MAX_RETRIES + 1

\* C28, the step: speechBuffer and duration are set by no step but the one
\* that assembled the audio a run returned.
C28_SetByAssemblyOnly ==
    (speechBuffer' # speechBuffer \/ duration' # duration)
        => (Returned /\ Len(audioResults) > 0 /\ sPc' = "done")

\* C28: a run that throws, or returns no audio, leaves speechBuffer and
\* duration as they were; and every run that is started comes to its end,
\* where isGeneratingAudio is false and the status is empty.
C28_FailedRunKeepsBuffer ==
    /\ [][C28_SetByAssemblyOnly]_vars
    /\ [](sPc = "done" => (~isGeneratingAudio /\ generationStatus = ""))
    /\ (isGeneratingAudio ~> (~isGeneratingAudio /\ generationStatus = ""))

\* The second run threw, and the buffer of the first one is still there.
C28_Witness ==
    /\ runs = 2
    /\ sPc = "done"
    /\ error # << >>
    /\ speechBuffer # << >>
    /\ duration = Length(speechBuffer[1])
    /\ ~isGeneratingAudio
    /\ generationStatus = ""

---------------------------------------------------------------------------
(* The claim on the playback.                                              *)

\* C30: whenever isPlaying is true, the buffer of the source node that
\* plays is the current speechBuffer.
C30_SourcePlaysSpeechBuffer ==
    isPlaying => speechSource = speechBuffer

===========================================================================
